---- MODULE Spec2Model ----
(***************************************************************************)
(* A model of linisreport: the comparison of two audits (model.py), the    *)
(* snapshot archive (storage.py), the discovery of audit sources           *)
(* (discovery.py) and the log parser (parser/log.py).                      *)
(*                                                                         *)
(* Each component has its own specification over the shared variables;     *)
(* the variables of the other components stay at their idle values.        *)
(***************************************************************************)
EXTENDS Integers, Sequences, FiniteSets, TLC

VARIABLES
    audits,     \* compare: audit id -> sequence of Findings (their immutable fields)
    status,     \* compare: audit id -> the status field of each Finding
    res,        \* compare: groups returned by the last compare_audits call
    cmp,        \* compare: arguments of the last compare_audits call
    fs,         \* storage: the file system, [dirs, files]
    lastOp,     \* storage: the last create_snapshot / delete_snapshot call and its outcome
    thr,        \* race: thread -> its position in create_snapshot and its locals
    raceAudit,  \* race: the audit both threads archive
    raced,      \* race: both threads passed the checks before either made the directory
    dcfg,       \* discovery: the DiscoveryConfig and the file tree it runs on
    dpc,        \* discovery: position in discover_audits
    baseIdx,    \* discovery: index of the search root being scanned
    scanning,   \* discovery: the scan of that search root has started
    queue,      \* discovery: the queue of _scan_for_audit_pairs
    visited,    \* discovery: its set visited
    sources,    \* discovery: the list sources
    seen_keys,  \* discovery: the set seen_keys
    encountered,\* discovery: every source found, in order, before deduplication
    visits,     \* discovery: every directory listed, with its depth
    logLines,   \* log parser: the lines of the log file
    lineNo,     \* log parser: number of lines read so far
    current_test_id, \* log parser: the ambient test id
    findings,   \* log parser: the findings extracted so far
    repLines,   \* report parser: the lines of the report file
    repNo,      \* report parser: number of lines read so far
    out,        \* report parser: the dictionary out built so far
    batch,      \* loader: the sources given to load_many, with the files behind them
    loadIdx,    \* loader: number of sources loaded so far
    loaded,     \* loader: every audit that load_audit returned, in order
    results,    \* loader: the list results of load_many
    loadPc,     \* loader: position in load_many
    fpIn,       \* fingerprint: the two findings whose fingerprints are taken
    fpOut       \* fingerprint: their fingerprints, once taken

compareVars == <<audits, status, res, cmp>>

storageVars == <<fs, lastOp>>

raceVars == <<thr, raceAudit, raced>>

discVars ==
    <<dcfg, dpc, baseIdx, scanning, queue, visited, sources, seen_keys, encountered, visits>>

logVars == <<logLines, lineNo, current_test_id, findings>>

reportVars == <<repLines, repNo, out>>

loadVars == <<batch, loadIdx, loaded, results, loadPc>>

fingerprintVars == <<fpIn, fpOut>>

vars ==
    <<compareVars, storageVars, raceVars, discVars, logVars, reportVars, loadVars,
      fingerprintVars>>

\* Python's None
None == "None"

(***************************************************************************)
(* Generic helpers on sequences                                            *)
(***************************************************************************)
Range(s) == {s[i] : i \in 1..Len(s)}

SeqsUpTo(S, n) == UNION {[1..k -> S] : k \in 0..n}

RECURSIVE FilterSeq(_, _)
FilterSeq(s, keep) ==
    IF s = <<>> THEN <<>>
    ELSE IF Head(s) \in keep THEN <<Head(s)>> \o FilterSeq(Tail(s), keep)
         ELSE FilterSeq(Tail(s), keep)

(***************************************************************************)
(* The values of the variables of a component that is not running          *)
(***************************************************************************)
\* an absent path (log_path = None), and an audit without source
NoPath == <<>>

NoSource == [root_dir |-> NoPath, log_path |-> NoPath, report_path |-> NoPath]

NoAudit == [source |-> NoSource, started_at |-> None, hostname |-> None]

NoFileSystem == [dirs |-> {}, files |-> <<>>]

NoOp == [op |-> "none", audit |-> NoAudit, now |-> None, result |-> "none", dest |-> NoPath]

NoCall == [old |-> None, new |-> None]

NoConfig ==
    [files |-> <<>>, fault |-> [kind |-> "none", dir |-> NoPath], search_dirs |-> <<>>,
     max_depth |-> 0, follow_symlinks |-> FALSE, include_current_varlog |-> FALSE,
     stat_raises |-> FALSE]

NoGroups == [new |-> <<>>, resolved |-> <<>>, persistent |-> <<>>]

Threads == {1, 2}

Other(t) == IF t = 1 THEN 2 ELSE 1

ThreadStart ==
    [pc |-> "start", dest |-> NoPath, files_copied |-> 0, result |-> "none"]

(***************************************************************************)
(* model.py: text normalisation and fingerprints.  A text is a sequence of *)
(* characters; "NP" stands for a non-printable character.                  *)
(***************************************************************************)
\* what \s matches and str.strip() strips: the form feed is among them
WhitespaceChars == {" ", "\t", "\f"}

\* what _NONPRINT_RE matches: all but tab, LF, CR and the characters from
\* the space to the tilde; the form feed is among them
NonPrintableChars == {"NP", "\f"}

\* str.lower() on one character, or on one word of a log line
LowerChar(c) ==
    CASE c = "A" -> "a"
      [] c = "B" -> "b"
      [] c = "X" -> "x"
      [] c = "SSH-2" -> "ssh-2"
      [] c = "CORE-1" -> "core-1"
      [] c = "PHP-3" -> "php-3"
      [] c = "B-2" -> "b-2"
      [] OTHER -> c

\* _NONPRINT_RE.sub("", s)
RECURSIVE StripNonPrintable(_)
StripNonPrintable(s) ==
    IF s = <<>> THEN <<>>
    ELSE IF Head(s) \in NonPrintableChars THEN StripNonPrintable(Tail(s))
         ELSE <<Head(s)>> \o StripNonPrintable(Tail(s))

\* _WS_RE.sub(" ", s): every run of whitespace becomes one space
RECURSIVE CollapseWhitespace(_)
CollapseWhitespace(s) ==
    IF s = <<>> THEN <<>>
    ELSE IF Head(s) \in WhitespaceChars
         THEN IF Len(s) > 1 /\ s[2] \in WhitespaceChars
              THEN CollapseWhitespace(Tail(s))
              ELSE <<" ">> \o CollapseWhitespace(Tail(s))
         ELSE <<Head(s)>> \o CollapseWhitespace(Tail(s))

\* str.strip()
RECURSIVE LStrip(_)
LStrip(s) ==
    IF s # <<>> /\ Head(s) \in WhitespaceChars THEN LStrip(Tail(s)) ELSE s

RECURSIVE RStrip(_)
RStrip(s) ==
    IF s # <<>> /\ s[Len(s)] \in WhitespaceChars
    THEN RStrip(SubSeq(s, 1, Len(s) - 1))
    ELSE s

Strip(s) == RStrip(LStrip(s))

Lower(s) == [i \in 1..Len(s) |-> LowerChar(s[i])]

normalize_text(s) ==
    IF s = None THEN <<>>
    ELSE Lower(Strip(CollapseWhitespace(StripNonPrintable(s))))

\* SHA-1 is taken to be collision free: the digest stands for its input.
sha1_hex(base) == <<"sha1">> \o base

normalized_fingerprint(f) ==
    LET base == <<f.ftype, "|", f.category, "|">> \o normalize_text(f.message)
    IN  sha1_hex(IF f.test_id # None /\ f.test_id # ""
                 THEN base \o <<"|", f.test_id>>
                 ELSE base)

(***************************************************************************)
(* model.py: compare_audits                                                *)
(*                                                                         *)
(* audits holds the immutable fields of every Finding, status holds the    *)
(* status field of the same objects; a Finding object is named by          *)
(* <<audit id, index>>.                                                    *)
(***************************************************************************)
AuditIds == {"A", "B", "C"}

MaxTotalFindings == 4

Finding(msg, tid) ==
    [ftype |-> "warning", category |-> "Uncategorized", message |-> msg,
     test_id |-> tid]

\* Findings a loaded audit may hold: the first two differ in case and
\* whitespace only, the third carries a test id, the fourth another message.
FindingPool ==
    {Finding(<<"a">>, None), Finding(<<"A", " ">>, None), Finding(<<"a">>, "T1"),
     Finding(<<"b">>, None)}

\* f.normalized_fingerprint() for the findings of the pool
FingerprintOf == [f \in FindingPool |-> normalized_fingerprint(f)]

\* {f.normalized_fingerprint(): f for f in findings}: a dict keeps a key at
\* the place of its first insertion and the value of its last insertion.
\* The map is the sequence of [fp |-> fingerprint, idx |-> index of the finding].
LastIndex(fnds, fp) ==
    CHOOSE i \in 1..Len(fnds) :
        /\ FingerprintOf[fnds[i]] = fp
        /\ \A j \in (i + 1)..Len(fnds) : FingerprintOf[fnds[j]] # fp

RECURSIVE FingerprintMapFrom(_, _)
FingerprintMapFrom(fnds, i) ==
    IF i > Len(fnds) THEN <<>>
    ELSE IF \E j \in 1..(i - 1) : FingerprintOf[fnds[j]] = FingerprintOf[fnds[i]]
         THEN FingerprintMapFrom(fnds, i + 1)
         ELSE <<[fp |-> FingerprintOf[fnds[i]], idx |-> LastIndex(fnds, FingerprintOf[fnds[i]])]>>
              \o FingerprintMapFrom(fnds, i + 1)

FingerprintMap(fnds) == FingerprintMapFrom(fnds, 1)

MapKeys(m) == {m[i].fp : i \in 1..Len(m)}

RECURSIVE SelectEntries(_, _, _)
\* the entries of map m whose key is (want = TRUE) or is not (want = FALSE) in keys
SelectEntries(m, keys, want) ==
    IF m = <<>> THEN <<>>
    ELSE IF (Head(m).fp \in keys) = want
         THEN <<Head(m)>> \o SelectEntries(Tail(m), keys, want)
         ELSE SelectEntries(Tail(m), keys, want)

Refs(aid, m) == [i \in 1..Len(m) |-> <<aid, m[i].idx>>]

\* a mutant: the second loop omits its test "fp not in new_map"
compare_groups_no_test(old, new) ==
    LET old_map == FingerprintMap(audits[old])
        new_map == FingerprintMap(audits[new])
    IN  [new        |-> Refs(new, SelectEntries(new_map, MapKeys(old_map), FALSE)),
         resolved   |-> Refs(old, old_map),
         persistent |-> Refs(new, SelectEntries(new_map, MapKeys(old_map), TRUE))]

\* the dictionary res that compare_audits returns
compare_groups(old, new) ==
    LET old_map == FingerprintMap(audits[old])
        new_map == FingerprintMap(audits[new])
    IN  [new        |-> Refs(new, SelectEntries(new_map, MapKeys(old_map), FALSE)),
         resolved   |-> Refs(old, SelectEntries(old_map, MapKeys(new_map), FALSE)),
         persistent |-> Refs(new, SelectEntries(new_map, MapKeys(old_map), TRUE))]

\* the status of finding object ref after the two loops have run over groups g
StatusAfter(g, ref, before) ==
    IF ref \in Range(g.resolved) THEN "resolved"
    ELSE IF ref \in Range(g.new) THEN "new"
    ELSE IF ref \in Range(g.persistent) THEN "unchanged"
    ELSE before

compare_audits(old, new) ==
    /\ res' = compare_groups(old, new)
    /\ cmp' = [old |-> old, new |-> new]
    /\ status' = [a \in AuditIds |->
                    [i \in 1..Len(audits[a]) |-> StatusAfter(res', <<a, i>>, status[a][i])]]
    /\ UNCHANGED <<audits, storageVars, raceVars, discVars, logVars, reportVars, loadVars, fingerprintVars>>

Min(a, b) == IF a <= b THEN a ELSE b

\* Finding.status defaults to "unchanged" (model.py line 89).  Every pair of
\* audits is compared in both orders, so the audits are named by
\* decreasing number of findings without loss of generality.
NoFindings == [a \in AuditIds |-> <<>>]

CompareInit ==
    /\ fs = NoFileSystem
    /\ lastOp = NoOp
    /\ thr = [t \in Threads |-> ThreadStart]
    /\ raceAudit = NoAudit
    /\ raced = FALSE
    /\ dcfg = NoConfig
    /\ dpc = "idle"
    /\ baseIdx = 0
    /\ scanning = FALSE
    /\ queue = <<>>
    /\ visited = {}
    /\ sources = <<>>
    /\ seen_keys = {}
    /\ encountered = <<>>
    /\ visits = {}
    /\ logLines = <<>>
    /\ lineNo = 0
    /\ current_test_id = None
    /\ findings = <<>>
    /\ repLines = <<>>
    /\ repNo = 0
    /\ out = <<>>
    /\ batch = <<>>
    /\ loadIdx = 0
    /\ loaded = <<>>
    /\ results = <<>>
    /\ loadPc = "idle"
    /\ fpIn = <<>>
    /\ fpOut = <<>>
    /\ \E la \in 0..MaxTotalFindings :
       \E lb \in 0..Min(la, MaxTotalFindings - la) :
       \E lc \in 0..Min(lb, MaxTotalFindings - la - lb) :
       \E fa \in [1..la -> FindingPool], fb \in [1..lb -> FindingPool],
          fc \in [1..lc -> FindingPool] :
            audits = [a \in AuditIds |->
                        IF a = "A" THEN fa ELSE IF a = "B" THEN fb ELSE fc]
    /\ status = [a \in AuditIds |-> [i \in 1..Len(audits[a]) |-> "unchanged"]]
    /\ res = NoGroups
    /\ cmp = NoCall

Compare == \E old \in AuditIds, new \in AuditIds : compare_audits(old, new)

CompareNext == Compare

(***************************************************************************)
(* storage.py: the snapshot archive.                                       *)
(*                                                                         *)
(* A path is a sequence of names.  fs.dirs is the set of real directories, *)
(* fs.files maps every real file to its content (the content of a file is  *)
(* named after the live file it was first written as).                     *)
(***************************************************************************)
\* Path.home() / ".local" / "share" / "linisreport" / "snapshots"
SNAPSHOT_ROOT == <<"home", "snapshots">>

\* the directories of the log tree that discovery scans
VARLOG == <<"var", "log">>

LYNIS == VARLOG \o <<"lynis">>

DIR_A == LYNIS \o <<"a">>

DIR_B == DIR_A \o <<"b">>

JOURNAL == VARLOG \o <<"journal">>

RealDirs == {VARLOG, LYNIS, DIR_A, DIR_B, JOURNAL}

\* symbolic links of the file system: path of the link -> its target.
\* /alias is another spelling of /var/log, short leads down to b, loop
\* leads back up, dangling leads nowhere.
Symlinks ==
    (<<"lnk">> :> (SNAPSHOT_ROOT \o <<"t1_h1">>))
    @@ (<<"up">> :> SNAPSHOT_ROOT)
    @@ (<<"alias">> :> VARLOG)
    @@ (VARLOG \o <<"short">> :> DIR_B)
    @@ (LYNIS \o <<"loop">> :> VARLOG)
    @@ (LYNIS \o <<"dangling">> :> <<"nowhere">>)

IsPrefix(p, q) == Len(p) <= Len(q) /\ SubSeq(q, 1, Len(p)) = p

\* pathlib: root in path.parents
InParents(root, path) == Len(root) < Len(path) /\ IsPrefix(root, path)

\* Path.resolve(): every symbolic link on the way is followed
RECURSIVE Resolve(_)
Resolve(p) ==
    IF \E l \in DOMAIN Symlinks : IsPrefix(l, p)
    THEN LET l == CHOOSE l \in DOMAIN Symlinks : IsPrefix(l, p)
         IN  Resolve(Symlinks[l] \o SubSeq(p, Len(l) + 1, Len(p)))
    ELSE p

\* Path.exists(), following links
Exists(f, p) == Resolve(p) \in f.dirs \/ Resolve(p) \in DOMAIN f.files

\* SNAPSHOT_ROOT.mkdir(parents=True, exist_ok=True)
get_snapshot_dir(f) ==
    [f EXCEPT !.dirs = @ \cup {SubSeq(SNAPSHOT_ROOT, 1, k) : k \in 1..Len(SNAPSHOT_ROOT)}]

\* a mutant: the snapshot root itself counts as a stored snapshot
is_stored_snapshot_or_root(audit) ==
    /\ audit.source # NoSource
    /\ IsPrefix(SNAPSHOT_ROOT, Resolve(audit.source.root_dir))

is_stored_snapshot(audit) ==
    /\ audit.source # NoSource
    /\ InParents(Resolve(SNAPSHOT_ROOT), Resolve(audit.source.root_dir))

\* shutil.rmtree(p), p an existing real directory: the tree below p goes
RemoveTree(f, p) ==
    [dirs  |-> {d \in f.dirs : ~IsPrefix(Resolve(p), d)},
     files |-> [q \in {q \in DOMAIN f.files : ~IsPrefix(Resolve(p), q)} |-> f.files[q]]]

\* shutil.copy2(src, dst)
Copy(f, src, dst) ==
    [f EXCEPT !.files = (dst :> f.files[Resolve(src)]) @@ @]

\* ts_date.strftime("%Y-%m-%d_%H%M%S") + "_" + host
Times == {"t1", "t2"}

Hosts == {"h1"}

FolderName(ts, host) ==
    CASE ts = "t1" /\ host = "h1" -> "t1_h1"
      [] ts = "t2" /\ host = "h1" -> "t2_h1"
      [] ts = "t1" /\ host = "unknown" -> "t1_unknown"
      [] ts = "t2" /\ host = "unknown" -> "t2_unknown"

FolderNames == {FolderName(t, h) : t \in Times, h \in Hosts \cup {"unknown"}}

DestDir(audit, now) ==
    SNAPSHOT_ROOT \o
        <<FolderName(IF audit.started_at # None THEN audit.started_at ELSE now,
                     IF audit.hostname # None THEN audit.hostname ELSE "unknown")>>

CanCopy(f, path) == path # NoPath /\ Resolve(path) \in DOMAIN f.files

\* the two copies of create_snapshot into the directory dest
CopyBoth(f, source, dest) ==
    LET f1 == IF CanCopy(f, source.log_path)
              THEN Copy(f, source.log_path, dest \o <<"lynis.log">>) ELSE f
    IN  IF CanCopy(f, source.report_path)
        THEN Copy(f1, source.report_path, dest \o <<"lynis-report.dat">>) ELSE f1

Mkdir(f, d) == [f EXCEPT !.dirs = @ \cup {d}]

\* a mutant: the directory made for a copy that copies nothing is left behind
create_snapshot_no_cleanup(f, audit, now) ==
    LET f0   == get_snapshot_dir(f)
        dest == DestDir(audit, now)
    IN  IF audit.source = NoSource
        THEN [fs |-> f0, result |-> "ValueError: source inconnue", dest |-> NoPath]
        ELSE IF is_stored_snapshot(audit)
        THEN [fs |-> f0, result |-> "ValueError: deja une archive", dest |-> NoPath]
        ELSE IF Exists(f0, dest)
        THEN [fs |-> f0, result |-> "FileExistsError", dest |-> dest]
        ELSE IF ~CanCopy(f0, audit.source.log_path) /\ ~CanCopy(f0, audit.source.report_path)
        THEN [fs |-> Mkdir(f0, dest), result |-> "ValueError: aucun fichier", dest |-> dest]
        ELSE [fs |-> CopyBoth(Mkdir(f0, dest), audit.source, dest),
              result |-> "ok", dest |-> dest]

\* create_snapshot on file system f: the file system it leaves, and
\* "ok" (dest is returned) or the exception it raises
create_snapshot(f, audit, now) ==
    LET f0   == get_snapshot_dir(f)
        dest == DestDir(audit, now)
    IN  IF audit.source = NoSource
        THEN [fs |-> f0, result |-> "ValueError: source inconnue", dest |-> NoPath]
        ELSE IF is_stored_snapshot(audit)
        THEN [fs |-> f0, result |-> "ValueError: deja une archive", dest |-> NoPath]
        ELSE IF Exists(f0, dest)
        THEN [fs |-> f0, result |-> "FileExistsError", dest |-> dest]
        ELSE IF ~CanCopy(f0, audit.source.log_path) /\ ~CanCopy(f0, audit.source.report_path)
        THEN [fs |-> RemoveTree(Mkdir(f0, dest), dest),
              result |-> "ValueError: aucun fichier", dest |-> dest]
        ELSE [fs |-> CopyBoth(Mkdir(f0, dest), audit.source, dest),
              result |-> "ok", dest |-> dest]

\* delete_snapshot on file system f.  is_stored_snapshot calls
\* get_snapshot_dir; rmtree refuses a path that is a symbolic link and
\* fails on a directory that does not exist.
delete_snapshot(f, audit) ==
    LET f0 == IF audit.source # NoSource THEN get_snapshot_dir(f) ELSE f
    IN  IF ~is_stored_snapshot(audit)
        THEN [fs |-> f0, result |-> "ValueError: pas une archive"]
        ELSE IF audit.source.root_dir \in DOMAIN Symlinks
        THEN [fs |-> f0, result |-> "OSError: symbolic link"]
        ELSE IF Resolve(audit.source.root_dir) \notin f0.dirs
        THEN [fs |-> f0, result |-> "FileNotFoundError"]
        ELSE [fs |-> RemoveTree(f0, audit.source.root_dir), result |-> "ok"]

(***************************************************************************)
(* The audits handed to create_snapshot and delete_snapshot, and the file  *)
(* system they act on.                                                     *)
(***************************************************************************)
Source(root) ==
    [root_dir |-> root, log_path |-> root \o <<"lynis.log">>,
     report_path |-> root \o <<"lynis-report.dat">>]

StoredAudit(source, started_at, hostname) ==
    [source |-> source, started_at |-> started_at, hostname |-> hostname]

StorageAudits ==
    \* live audits of /var/log (log and report), any date and host
    {StoredAudit(Source(VARLOG), t, h) : t \in Times \cup {None}, h \in Hosts \cup {None}}
    \* a live audit with a report only, one whose files vanished, one without source
    \cup {StoredAudit(Source(<<"opt", "audit">>), "t1", "h1"),
          StoredAudit(Source(<<"tmp", "gone">>), "t1", "h1"),
          StoredAudit(NoSource, "t1", "h1")}
    \* the snapshot root itself, directly and through a link
    \cup {StoredAudit(Source(SNAPSHOT_ROOT), "t2", "h1"),
          StoredAudit(Source(<<"up">>), "t2", "h1")}
    \* archives, directly and through links
    \cup {StoredAudit(Source(SNAPSHOT_ROOT \o <<n>>), "t1", "h1") : n \in FolderNames}
    \cup {StoredAudit(Source(<<"lnk">>), "t1", "h1"),
          StoredAudit(Source(<<"up", "t2_h1">>), "t2", "h1")}

LiveDirs == {<<"var">>, VARLOG, <<"opt">>, <<"opt", "audit">>, <<"tmp">>}

LiveFiles ==
    (VARLOG \o <<"lynis.log">> :> "varlog.log")
    @@ (VARLOG \o <<"lynis-report.dat">> :> "varlog.dat")
    @@ (<<"opt", "audit", "lynis-report.dat">> :> "opt.dat")


\* the snapshot root exists once get_snapshot_dir has run
InitialFileSystems ==
    {[dirs |-> LiveDirs \cup d, files |-> LiveFiles] : d \in {{}, {<<"home">>, SNAPSHOT_ROOT}}}

StorageInit ==
    /\ fs \in InitialFileSystems
    /\ lastOp = NoOp
    /\ audits = NoFindings
    /\ status = NoFindings
    /\ res = NoGroups
    /\ cmp = NoCall
    /\ thr = [t \in Threads |-> ThreadStart]
    /\ raceAudit = NoAudit
    /\ raced = FALSE
    /\ dcfg = NoConfig
    /\ dpc = "idle"
    /\ baseIdx = 0
    /\ scanning = FALSE
    /\ queue = <<>>
    /\ visited = {}
    /\ sources = <<>>
    /\ seen_keys = {}
    /\ encountered = <<>>
    /\ visits = {}
    /\ logLines = <<>>
    /\ lineNo = 0
    /\ current_test_id = None
    /\ findings = <<>>
    /\ repLines = <<>>
    /\ repNo = 0
    /\ out = <<>>
    /\ batch = <<>>
    /\ loadIdx = 0
    /\ loaded = <<>>
    /\ results = <<>>
    /\ loadPc = "idle"
    /\ fpIn = <<>>
    /\ fpOut = <<>>

CreateSnapshot ==
    \E audit \in StorageAudits, now \in Times :
        LET r == create_snapshot(fs, audit, now)
        IN  /\ fs' = r.fs
            /\ lastOp' = [op |-> "create", audit |-> audit, now |-> now,
                          result |-> r.result, dest |-> r.dest]
            /\ UNCHANGED <<compareVars, raceVars, discVars, logVars, reportVars, loadVars, fingerprintVars>>

DeleteSnapshot ==
    \E audit \in StorageAudits :
        LET r == delete_snapshot(fs, audit)
        IN  /\ fs' = r.fs
            /\ lastOp' = [op |-> "delete", audit |-> audit, now |-> None,
                          result |-> r.result, dest |-> NoPath]
            /\ UNCHANGED <<compareVars, raceVars, discVars, logVars, reportVars, loadVars, fingerprintVars>>

StorageNext == CreateSnapshot \/ DeleteSnapshot

(***************************************************************************)
(* storage.py: two concurrent create_snapshot calls for the same audit.    *)
(* Every access to the file system is one step of a thread.                *)
(***************************************************************************)
RaceInit ==
    /\ fs \in InitialFileSystems
    /\ lastOp = NoOp
    /\ thr = [t \in Threads |-> ThreadStart]
    /\ raceAudit \in StorageAudits
    /\ raced = FALSE
    /\ audits = NoFindings
    /\ status = NoFindings
    /\ res = NoGroups
    /\ cmp = NoCall
    /\ dcfg = NoConfig
    /\ dpc = "idle"
    /\ baseIdx = 0
    /\ scanning = FALSE
    /\ queue = <<>>
    /\ visited = {}
    /\ sources = <<>>
    /\ seen_keys = {}
    /\ encountered = <<>>
    /\ visits = {}
    /\ logLines = <<>>
    /\ lineNo = 0
    /\ current_test_id = None
    /\ findings = <<>>
    /\ repLines = <<>>
    /\ repNo = 0
    /\ out = <<>>
    /\ batch = <<>>
    /\ loadIdx = 0
    /\ loaded = <<>>
    /\ results = <<>>
    /\ loadPc = "idle"
    /\ fpIn = <<>>
    /\ fpOut = <<>>

Raise(t, exc) == thr' = [thr EXCEPT ![t].pc = "done", ![t].result = exc]

\* a mutant: mkdir() without exist_ok raises on an existing directory
mkdir_strict(f, d) ==
    IF d \in f.dirs THEN [fs |-> f, raised |-> TRUE]
    ELSE [fs |-> Mkdir(f, d), raised |-> FALSE]

\* dest_dir.mkdir(exist_ok=True)
mkdir_exist_ok(f, d) == [fs |-> Mkdir(f, d), raised |-> FALSE]

\* lines 40-56: get_snapshot_dir, the two precondition checks, the name
ThreadCheckSource(t) ==
    /\ thr[t].pc = "start"
    /\ fs' = get_snapshot_dir(fs)
    /\ \E now \in Times :
          IF raceAudit.source = NoSource
          THEN Raise(t, "ValueError: source inconnue")
          ELSE IF is_stored_snapshot(raceAudit)
          THEN Raise(t, "ValueError: deja une archive")
          ELSE thr' = [thr EXCEPT ![t].pc = "exists", ![t].dest = DestDir(raceAudit, now)]
    /\ UNCHANGED <<raced, compareVars, lastOp, raceAudit, discVars, logVars, reportVars, loadVars, fingerprintVars>>

\* lines 58-59: if dest_dir.exists(): raise
ThreadCheckExists(t) ==
    /\ thr[t].pc = "exists"
    /\ IF Exists(fs, thr[t].dest)
       THEN Raise(t, "FileExistsError") /\ UNCHANGED raced
       ELSE /\ thr' = [thr EXCEPT ![t].pc = "mkdir"]
            /\ raced' = (raced \/ (thr[Other(t)].pc = "mkdir"
                                    /\ thr[Other(t)].dest = thr[t].dest))
    /\ UNCHANGED <<fs, compareVars, lastOp, raceAudit, discVars, logVars, reportVars, loadVars, fingerprintVars>>

\* line 61: dest_dir.mkdir(exist_ok=True)
ThreadMkdir(t) ==
    /\ thr[t].pc = "mkdir"
    /\ LET r == mkdir_exist_ok(fs, thr[t].dest)
       IN  /\ fs' = r.fs
           /\ IF r.raised THEN Raise(t, "FileExistsError")
              ELSE thr' = [thr EXCEPT ![t].pc = "copy_log"]
    /\ UNCHANGED <<raced, compareVars, lastOp, raceAudit, discVars, logVars, reportVars, loadVars, fingerprintVars>>

\* lines 64-70: one copy2; it fails when the directory has gone meanwhile
ThreadCopy(t, pc, path, file, next) ==
    /\ thr[t].pc = pc
    /\ IF ~CanCopy(fs, path)
       THEN thr' = [thr EXCEPT ![t].pc = next] /\ UNCHANGED fs
       ELSE IF thr[t].dest \notin fs.dirs
       THEN Raise(t, "FileNotFoundError") /\ UNCHANGED fs
       ELSE /\ fs' = Copy(fs, path, thr[t].dest \o <<file>>)
            /\ thr' = [thr EXCEPT ![t].pc = next, ![t].files_copied = @ + 1]
    /\ UNCHANGED <<raced, compareVars, lastOp, raceAudit, discVars, logVars, reportVars, loadVars, fingerprintVars>>

ThreadCopyLog(t) ==
    ThreadCopy(t, "copy_log", raceAudit.source.log_path, "lynis.log", "copy_report")

ThreadCopyReport(t) ==
    ThreadCopy(t, "copy_report", raceAudit.source.report_path, "lynis-report.dat", "finish")

\* lines 72-76: nothing copied: rmtree and raise; else return dest_dir
ThreadFinish(t) ==
    /\ thr[t].pc = "finish"
    /\ IF thr[t].files_copied = 0
       THEN IF thr[t].dest \in fs.dirs
            THEN fs' = RemoveTree(fs, thr[t].dest) /\ Raise(t, "ValueError: aucun fichier")
            ELSE UNCHANGED fs /\ Raise(t, "FileNotFoundError")
       ELSE UNCHANGED fs /\ thr' = [thr EXCEPT ![t].pc = "done", ![t].result = "ok"]
    /\ UNCHANGED <<raced, compareVars, lastOp, raceAudit, discVars, logVars, reportVars, loadVars, fingerprintVars>>

RaceNext ==
    \E t \in Threads :
        \/ ThreadCheckSource(t)
        \/ ThreadCheckExists(t)
        \/ ThreadMkdir(t)
        \/ ThreadCopyLog(t)
        \/ ThreadCopyReport(t)
        \/ ThreadFinish(t)

(***************************************************************************)
(* discovery.py: discover_audits and _scan_for_audit_pairs.                *)
(*                                                                         *)
(* dcfg.files gives the expected files each directory holds, dcfg.fault    *)
(* the one directory that is inaccessible: "unlistable" (it cannot be      *)
(* read: iterdir raises) or "unsearchable" (it can be read but not         *)
(* searched: stat of anything below it fails with EACCES).                 *)
(***************************************************************************)
LOG_NAME == "lynis.log"

REPORT_NAME == "lynis-report.dat"

NoiseNames == {".git", "__pycache__", "journal"}

MaxDepthBound == 2

\* os.listdir: the names below a directory that are not the expected files
ChildNames(d) ==
    CASE d = VARLOG -> <<"journal", "lynis", "short">>
      [] d = LYNIS  -> <<"a", "dangling", "loop">>
      [] d = DIR_A  -> <<"b">>
      [] OTHER      -> <<>>

Parent(p) == SubSeq(p, 1, Len(p) - 1)

Last(p) == p[Len(p)]

Unlistable(d) == dcfg.fault.kind = "unlistable" /\ dcfg.fault.dir = d

Unsearchable(d) == dcfg.fault.kind = "unsearchable" /\ dcfg.fault.dir = d

\* stat(p) fails with EACCES: a directory on the way to p cannot be searched
StatDenied(p) ==
    \/ \E k \in 1..(Len(p) - 1) : Unsearchable(Resolve(SubSeq(p, 1, k)))
    \/ \E d \in RealDirs : Unsearchable(d) /\ InParents(d, Resolve(p))

\* pathlib is_file / is_dir / exists: FALSE for a missing path or a broken
\* link; EACCES is propagated (Python up to 3.12) or taken as FALSE (3.13)
StatRaises(p) == StatDenied(p) /\ dcfg.stat_raises

is_file(p) ==
    /\ ~StatDenied(p)
    /\ Resolve(Parent(p)) \in DOMAIN dcfg.files
    /\ Last(p) \in dcfg.files[Resolve(Parent(p))]

is_dir(p) == ~StatDenied(p) /\ Resolve(p) \in RealDirs

\* lstat: the last name of p is itself a link
is_symlink(p) == (Resolve(Parent(p)) \o <<Last(p)>>) \in DOMAIN Symlinks

AuditSource(root, log, report) ==
    [root_dir |-> root, log_path |-> log, report_path |-> report]

\* a mutant: the key is made of the paths as spelled
as_key_unresolved(src) ==
    src.root_dir \o <<"|">> \o src.log_path \o <<"|">> \o src.report_path

\* AuditSource.as_key: the resolved paths ("" for an absent one) joined by "|"
as_key(src) ==
    Resolve(src.root_dir)
    \o <<"|">> \o (IF src.log_path # NoPath THEN Resolve(src.log_path) ELSE <<>>)
    \o <<"|">> \o (IF src.report_path # NoPath THEN Resolve(src.report_path) ELSE <<>>)

\* str(path) order: names compare as strings
NamesInOrder ==
    <<"a", "alias", "b", "dangling", "journal", "log", "loop", "lynis", "missing",
      "short", "var">>

NameRank(n) == CHOOSE i \in 1..Len(NamesInOrder) : NamesInOrder[i] = n

RECURSIVE PathLess(_, _)
PathLess(p, q) ==
    IF q = <<>> THEN FALSE
    ELSE IF p = <<>> THEN TRUE
    ELSE IF Head(p) = Head(q) THEN PathLess(Tail(p), Tail(q))
    ELSE NameRank(Head(p)) < NameRank(Head(q))

\* list.sort(key=lambda s: str(s.root_dir)), a stable sort
RECURSIVE InsertSorted(_, _)
InsertSorted(sorted, x) ==
    IF sorted = <<>> THEN <<x>>
    ELSE IF PathLess(x.root_dir, Head(sorted).root_dir)
         THEN <<x>> \o sorted
         ELSE <<Head(sorted)>> \o InsertSorted(Tail(sorted), x)

RECURSIVE SortByRoot(_)
SortByRoot(srcs) ==
    IF srcs = <<>> THEN <<>>
    ELSE InsertSorted(SortByRoot(SubSeq(srcs, 1, Len(srcs) - 1)), srcs[Len(srcs)])

\* lines 59-63 and 68-71: a source is kept unless its key was seen
Keep(src) ==
    /\ encountered' = Append(encountered, src)
    /\ IF as_key(src) \in seen_keys
       THEN UNCHANGED <<sources, seen_keys>>
       ELSE /\ sources' = Append(sources, src)
            /\ seen_keys' = seen_keys \cup {as_key(src)}

\* a mutant: the scan goes one level deeper
MayDescendOneMore(depth, max_depth) == ~(depth > max_depth)

\* line 156: if depth >= max_depth: continue
MayDescend(depth, max_depth) == ~(depth >= max_depth)

FileSets == {{}, {LOG_NAME}, {LOG_NAME, REPORT_NAME}}

\* the expected files of every directory: /var/log holds none, the log or
\* both; lynis and journal hold both; a holds none; b holds none or both
FileTrees ==
    {(VARLOG :> v) @@ (LYNIS :> {LOG_NAME, REPORT_NAME}) @@ (DIR_A :> {})
        @@ (DIR_B :> b) @@ (JOURNAL :> {LOG_NAME, REPORT_NAME}) :
        v \in FileSets, b \in {{}, {LOG_NAME, REPORT_NAME}}}

Faults ==
    {[kind |-> "none", dir |-> NoPath]}
    \cup {[kind |-> k, dir |-> d] : k \in {"unlistable", "unsearchable"},
                                   d \in {VARLOG, LYNIS, DIR_A}}

SearchDirLists ==
    {<<VARLOG>>, <<<<"alias">>>>, <<<<"alias">>, VARLOG>>, <<VARLOG, LYNIS>>,
     <<<<"missing">>, LYNIS>>}

DiscoveryConfigs ==
    [files : FileTrees, fault : Faults, search_dirs : SearchDirLists,
     max_depth : 0..MaxDepthBound, follow_symlinks : BOOLEAN,
     include_current_varlog : BOOLEAN, stat_raises : BOOLEAN]

DiscInit ==
    /\ dcfg \in DiscoveryConfigs
    /\ dpc = "probe"
    /\ baseIdx = 0
    /\ scanning = FALSE
    /\ queue = <<>>
    /\ visited = {}
    /\ sources = <<>>
    /\ seen_keys = {}
    /\ encountered = <<>>
    /\ visits = {}
    /\ audits = NoFindings
    /\ status = NoFindings
    /\ res = NoGroups
    /\ cmp = NoCall
    /\ fs = NoFileSystem
    /\ lastOp = NoOp
    /\ thr = [t \in Threads |-> ThreadStart]
    /\ raceAudit = NoAudit
    /\ raced = FALSE
    /\ logLines = <<>>
    /\ lineNo = 0
    /\ current_test_id = None
    /\ findings = <<>>
    /\ repLines = <<>>
    /\ repNo = 0
    /\ out = <<>>
    /\ batch = <<>>
    /\ loadIdx = 0
    /\ loaded = <<>>
    /\ results = <<>>
    /\ loadPc = "idle"
    /\ fpIn = <<>>
    /\ fpOut = <<>>

discIdle == <<compareVars, storageVars, raceVars, logVars, reportVars, loadVars, fingerprintVars>>

\* an exception leaves discover_audits: no list is returned
Abort ==
    /\ dpc' = "aborted"
    /\ UNCHANGED <<dcfg, baseIdx, scanning, queue, visited, sources, seen_keys,
                   encountered, visits>>

\* the source that the expected files found in directory cur make up
FoundSource(cur) ==
    AuditSource(cur,
                IF is_file(cur \o <<LOG_NAME>>) THEN cur \o <<LOG_NAME>> ELSE NoPath,
                IF is_file(cur \o <<REPORT_NAME>>) THEN cur \o <<REPORT_NAME>> ELSE NoPath)

HasFiles(src) == src.log_path # NoPath \/ src.report_path # NoPath

\* lines 57-63 and _discover_current_varlog
Probe ==
    /\ dpc = "probe"
    /\ IF dcfg.include_current_varlog /\ StatRaises(VARLOG \o <<LOG_NAME>>)
       THEN Abort
       ELSE /\ IF dcfg.include_current_varlog /\ HasFiles(FoundSource(VARLOG))
               THEN Keep(FoundSource(VARLOG))
               ELSE UNCHANGED <<sources, seen_keys, encountered>>
            /\ dpc' = "scan"
            /\ baseIdx' = 1
            /\ UNCHANGED <<dcfg, scanning, queue, visited, visits>>
    /\ UNCHANGED discIdle

\* lines 111-118: the scan of the next search root starts
StartScan ==
    /\ dpc = "scan" /\ ~scanning /\ baseIdx <= Len(dcfg.search_dirs)
    /\ LET base == dcfg.search_dirs[baseIdx]
       IN  IF StatRaises(base)
           THEN Abort
           ELSE /\ IF is_dir(base)
                   THEN /\ queue' = <<[path |-> base, depth |-> 0]>>
                        /\ visited' = {}
                        /\ scanning' = TRUE
                        /\ UNCHANGED baseIdx
                   ELSE /\ baseIdx' = baseIdx + 1
                        /\ UNCHANGED <<queue, visited, scanning>>
                /\ UNCHANGED <<dcfg, dpc, sources, seen_keys, encountered, visits>>
    /\ UNCHANGED discIdle

\* the names that iterdir gives for the directory spelled cur
EntryNames(cur) ==
    (IF LOG_NAME \in dcfg.files[Resolve(cur)] THEN <<LOG_NAME>> ELSE <<>>)
    \o (IF REPORT_NAME \in dcfg.files[Resolve(cur)] THEN <<REPORT_NAME>> ELSE <<>>)
    \o ChildNames(Resolve(cur))

\* lines 159-173: the entries of cur that are put on the queue
RECURSIVE Children(_, _, _)
Children(cur, names, depth) ==
    IF names = <<>> THEN <<>>
    ELSE LET e == cur \o <<Head(names)>>
         IN  IF /\ is_dir(e)
                /\ Head(names) \notin NoiseNames
                /\ ~(is_symlink(e) /\ ~dcfg.follow_symlinks)
             THEN <<[path |-> e, depth |-> depth + 1]>> \o Children(cur, Tail(names), depth)
             ELSE Children(cur, Tail(names), depth)

\* the history of the scan: directory cur was taken from the queue at this
\* depth, its listing succeeded or not, and it yielded a source or not
Visit(cur, depth, ok) ==
    [base |-> dcfg.search_dirs[baseIdx], path |-> cur, depth |-> depth,
     listed |-> ok, yielded |-> ok /\ HasFiles(FoundSource(cur))]

\* a mutant: a directory is remembered under the path as it is spelled
cur_spelled(current) == current

\* line 124: cur_resolved = current.resolve()
cur_resolved(current) == Resolve(current)

\* lines 120-173: one turn of the while loop, with the consumer's
\* deduplication of the source it yields (lines 68-71)
ScanStep ==
    /\ dpc = "scan" /\ scanning /\ queue # <<>>
    /\ LET cur   == Head(queue).path
           depth == Head(queue).depth
       IN  IF cur_resolved(cur) \in visited
           THEN /\ queue' = Tail(queue)
                /\ UNCHANGED <<dpc, visited, sources, seen_keys, encountered, visits>>
           ELSE IF Unlistable(Resolve(cur))
           THEN /\ queue' = Tail(queue)
                /\ visited' = visited \cup {cur_resolved(cur)}
                /\ visits' = visits \cup {Visit(cur, depth, FALSE)}
                /\ UNCHANGED <<dpc, sources, seen_keys, encountered>>
           ELSE IF \E i \in 1..Len(EntryNames(cur)) : StatRaises(cur \o <<EntryNames(cur)[i]>>)
           THEN /\ dpc' = "aborted"
                /\ UNCHANGED <<queue, visited, sources, seen_keys, encountered, visits>>
           ELSE /\ visited' = visited \cup {cur_resolved(cur)}
                /\ visits' = visits \cup {Visit(cur, depth, TRUE)}
                /\ IF HasFiles(FoundSource(cur))
                   THEN Keep(FoundSource(cur))
                   ELSE UNCHANGED <<sources, seen_keys, encountered>>
                /\ queue' = Tail(queue) \o
                        (IF MayDescend(depth, dcfg.max_depth)
                         THEN Children(cur, ChildNames(Resolve(cur)), depth)
                         ELSE <<>>)
                /\ UNCHANGED dpc
    /\ UNCHANGED <<dcfg, baseIdx, scanning>>
    /\ UNCHANGED discIdle

\* the generator is exhausted: the for loop of line 66 takes the next root
EndScan ==
    /\ dpc = "scan" /\ scanning /\ queue = <<>>
    /\ scanning' = FALSE
    /\ baseIdx' = baseIdx + 1
    /\ UNCHANGED <<dcfg, dpc, queue, visited, sources, seen_keys, encountered, visits>>
    /\ UNCHANGED discIdle

\* lines 74-75: sort and return
FinishDiscovery ==
    /\ dpc = "scan" /\ ~scanning /\ baseIdx > Len(dcfg.search_dirs)
    /\ sources' = SortByRoot(sources)
    /\ dpc' = "done"
    /\ UNCHANGED <<dcfg, baseIdx, scanning, queue, visited, seen_keys, encountered, visits>>
    /\ UNCHANGED discIdle

DiscNext == Probe \/ StartScan \/ ScanStep \/ EndScan \/ FinishDiscovery

(***************************************************************************)
(* parser/log.py: parse_log                                                *)
(*                                                                         *)
(* A log line is a sequence of lexical units: one whitespace character, one*)
(* punctuation character, or one maximal run of the characters that are    *)
(* neither (a word, a timestamp "TS", a bracketed marker).  The regular    *)
(* expressions are applied unit by unit.                                   *)
(***************************************************************************)
MaxLines == 3

\* no group was captured
NoMatch == ""

\* Finding.source_line_start: Optional[int] = None; line numbers start at 1
NoLine == 0

\* units made of the characters [A-Za-z0-9-] only
IdWords ==
    {"ssh-2", "CORE-1", "x", "login", "Performing", "test", "Test", "ID",
     "Warning", "WARNING", "Suggestion"}

\* str.upper() on one word
Upper(w) ==
    CASE w = "ssh-2" -> "SSH-2"
      [] w = "php-3" -> "PHP-3"
      [] w = "x" -> "X"
      [] w = "login" -> "LOGIN"
      [] w = "test" -> "TEST"
      [] w = "Test" -> "TEST"
      [] w = "Performing" -> "PERFORMING"
      [] w = "Warning" -> "WARNING"
      [] w = "Suggestion" -> "SUGGESTION"
      [] OTHER -> w

\* the unit at position i, or "" past the end of the line
At(l, i) == IF i >= 1 /\ i <= Len(l) THEN l[i] ELSE NoMatch

\* \s* from position i: the position of the first unit that is not whitespace
RECURSIVE SkipSpaces(_, _)
SkipSpaces(l, i) ==
    IF At(l, i) \in WhitespaceChars THEN SkipSpaces(l, i + 1) ELSE i

\* x? from position i
SkipOne(l, i, x) == IF At(l, i) = x THEN i + 1 ELSE i

\* test_line_re: ^\s*(?:Test| Performing test ID):?\s*([A-Z0-9-]+), ignoring
\* case; the group, or NoMatch.  The second alternative begins with a space.
test_line_re(l) ==
    LET k == SkipSpaces(l, 1)
        afterAlt ==
            IF Upper(At(l, k)) = "TEST" THEN k + 1
            ELSE IF /\ k >= 2 /\ l[k - 1] = " "
                    /\ Upper(At(l, k)) = "PERFORMING" /\ At(l, k + 1) = " "
                    /\ Upper(At(l, k + 2)) = "TEST" /\ At(l, k + 3) = " "
                    /\ Upper(At(l, k + 4)) = "ID"
                 THEN k + 5
                 ELSE 0
        g == SkipSpaces(l, SkipOne(l, afterAlt, ":"))
    IN  IF afterAlt # 0 /\ At(l, g) \in IdWords THEN At(l, g) ELSE NoMatch

\* _FINDING_RE.match: optional timestamp, optional "[", the keyword, optional
\* "]" and ":", then the message without its trailing whitespace
FINDING_RE(l) ==
    LET p  == IF At(l, 1) = "TS" /\ At(l, 2) \in WhitespaceChars
              THEN SkipSpaces(l, 2) ELSE 1
        p1 == SkipSpaces(l, p)
        p2 == IF At(l, p1) = "[" THEN SkipSpaces(l, p1 + 1) ELSE p1
        p3 == SkipSpaces(l, p2 + 1)
        p4 == IF At(l, p3) = "]" THEN SkipSpaces(l, p3 + 1) ELSE p3
        p5 == IF At(l, p4) = ":" THEN SkipSpaces(l, p4 + 1) ELSE p4
    IN  IF Upper(At(l, p2)) \in {"WARNING", "SUGGESTION"}
        THEN [matched |-> TRUE, kind |-> Upper(At(l, p2)),
              msg |-> RStrip(SubSeq(l, p5, Len(l)))]
        ELSE [matched |-> FALSE, kind |-> NoMatch, msg |-> <<>>]

\* the units that _INLINE_TEST_ID_RE matches, and the group of each
InlineMarkers == {"[test:php-3]", "[test:B-2]"}

InlineGroup(u) == IF u = "[test:php-3]" THEN "php-3" ELSE "B-2"

\* _INLINE_TEST_ID_RE.search: the first marker of the message, or NoMatch
RECURSIVE INLINE_TEST_ID_RE(_)
INLINE_TEST_ID_RE(msg) ==
    IF msg = <<>> THEN NoMatch
    ELSE IF Head(msg) \in InlineMarkers THEN Head(msg)
         ELSE INLINE_TEST_ID_RE(Tail(msg))

\* str.replace(old, ""): every occurrence of that very text goes
RECURSIVE Replace(_, _)
Replace(msg, old) ==
    IF msg = <<>> THEN <<>>
    ELSE IF Head(msg) = old THEN Replace(Tail(msg), old)
         ELSE <<Head(msg)>> \o Replace(Tail(msg), old)

\* _CLEANUP_RE.sub(""): a placeholder goes with the whitespace after it
RECURSIVE CLEANUP_RE(_)
CLEANUP_RE(msg) ==
    IF msg = <<>> THEN <<>>
    ELSE IF Head(msg) \in {"[details:-]", "[solution:-]"}
         THEN CLEANUP_RE(LStrip(Tail(msg)))
         ELSE <<Head(msg)>> \o CLEANUP_RE(Tail(msg))

\* CATEGORY_RULES, in order, each with the lower-case units that hold one of
\* its keywords
CATEGORY_RULES == << <<"SSH", {"ssh-2"}>>, <<"Auth/PAM", {"login"}>> >>

\* guess_category: the first rule with a keyword in "test_id message"
guess_category(message, test_id) ==
    LET hay == normalize_text((IF test_id # None THEN <<test_id>> ELSE <<>>)
                              \o <<" ">> \o message)
        hits == {r \in 1..Len(CATEGORY_RULES) :
                    Range(hay) \cap CATEGORY_RULES[r][2] # {}}
    IN  IF hits = {} THEN "Uncategorized"
        ELSE CATEGORY_RULES[CHOOSE r \in hits : \A q \in hits : r <= q][1]

\* make_finding_id: the test id when there is one, else a digest
make_finding_id(ftype, message, test_id, category) ==
    IF test_id # None THEN <<test_id>>
    ELSE sha1_hex(<<ftype, "|", category, "|">> \o normalize_text(message))

\* lines 61-98: the Finding made from a line that _FINDING_RE matched
FindingOfLine(line, m, ctx) ==
    LET ftype   == IF m.kind = "WARNING" THEN "warning" ELSE "suggestion"
        inline  == INLINE_TEST_ID_RE(m.msg)
        test_id == IF inline # NoMatch THEN Upper(InlineGroup(inline)) ELSE ctx
        raw     == IF inline # NoMatch THEN Replace(m.msg, inline) ELSE m.msg
        clean   == Strip(CLEANUP_RE(raw))
        cat     == guess_category(clean, test_id)
    IN  [finding_id |-> make_finding_id(ftype, clean, test_id, cat),
         ftype |-> ftype, message |-> clean, test_id |-> test_id,
         category |-> cat, evidence |-> <<line>>,
         source_line_start |-> NoLine, status |-> "unchanged"]

\* the lines a log is made of
SampleLines ==
    {<<"Test", ":", " ", "ssh-2">>,
     <<"Performing", " ", "test", " ", "ID", " ", "CORE-1">>,
     <<" ", "Warning", ":", " ", "x">>,
     <<"Suggestion", ":", " ", "x", " ", "[test:php-3]">>,
     <<"TS", " ", "Warning", ":", " ", "login", " ", "[details:-]", " ">>,
     <<"[", "WARNING", "]", " ", "x", " ", "[test:B-2]", " ", "[test:php-3]">>,
     <<" ", "\t">>,
     <<"x", " ", "x">>}

LogInit ==
    /\ \E n \in 0..MaxLines : logLines \in [1..n -> SampleLines]
    /\ lineNo = 0
    /\ current_test_id = None
    /\ findings = <<>>
    /\ repLines = <<>>
    /\ repNo = 0
    /\ out = <<>>
    /\ batch = <<>>
    /\ loadIdx = 0
    /\ loaded = <<>>
    /\ results = <<>>
    /\ loadPc = "idle"
    /\ fpIn = <<>>
    /\ fpOut = <<>>
    /\ audits = NoFindings
    /\ status = NoFindings
    /\ res = NoGroups
    /\ cmp = NoCall
    /\ fs = NoFileSystem
    /\ lastOp = NoOp
    /\ thr = [t \in Threads |-> ThreadStart]
    /\ raceAudit = NoAudit
    /\ raced = FALSE
    /\ dcfg = NoConfig
    /\ dpc = "idle"
    /\ baseIdx = 0
    /\ scanning = FALSE
    /\ queue = <<>>
    /\ visited = {}
    /\ sources = <<>>
    /\ seen_keys = {}
    /\ encountered = <<>>
    /\ visits = {}

\* lines 50-98: the ambient test id and the findings after one more line
parse_log_line(ctx, fnds, raw) ==
    LET line == Strip(raw)
    IN  IF line = <<>>
        THEN [current_test_id |-> ctx, findings |-> fnds]
        ELSE IF test_line_re(line) # NoMatch
        THEN [current_test_id |-> Upper(test_line_re(line)), findings |-> fnds]
        ELSE IF FINDING_RE(line).matched
        THEN [current_test_id |-> ctx,
              findings |-> Append(fnds, FindingOfLine(line, FINDING_RE(line), ctx))]
        ELSE [current_test_id |-> ctx, findings |-> fnds]

\* lines 49-98: one turn of the loop over the lines of the file
ParseLine ==
    /\ lineNo < Len(logLines)
    /\ lineNo' = lineNo + 1
    /\ current_test_id' =
          parse_log_line(current_test_id, findings, logLines[lineNo + 1]).current_test_id
    /\ findings' =
          parse_log_line(current_test_id, findings, logLines[lineNo + 1]).findings
    /\ UNCHANGED <<logLines, compareVars, storageVars, raceVars, discVars, reportVars, loadVars, fingerprintVars>>

LogNext == ParseLine

(***************************************************************************)
(* parser/report.py: parse_report_dat                                      *)
(*                                                                         *)
(* A report line is a sequence of units as a log line is; "[]" is the unit *)
(* of the two characters that mark a list key.  A value of the dictionary  *)
(* is an entry: a scalar (a text) or a list of texts.                      *)
(***************************************************************************)
MaxReportLines == 3

\* units made of the characters [A-Za-z0-9_.:-] only
ReportWords ==
    {"x", "X", "a", "b", "c", "hostname", "host", "hardening_index",
     "report_datetime_start", "h1", "h2", "0", "70", "2026-01-01", "junk",
     "compliance_score", "report_datetime_end", "scan_end"}

QuoteChars == {"\"", "'"}

ScalarEntry(v) == [kind |-> "scalar", value |-> v, items |-> <<>>]

ListEntry(vs) == [kind |-> "list", value |-> <<>>, items |-> vs]

\* the position of the first unit u of l, or 0
IndexOf(l, u) ==
    IF \E i \in 1..Len(l) : l[i] = u
    THEN CHOOSE i \in 1..Len(l) : l[i] = u /\ \A j \in 1..(i - 1) : l[j] # u
    ELSE 0

\* line.split("=", 1)[0]
key_part(l) ==
    IF IndexOf(l, "=") = 0 THEN l ELSE SubSeq(l, 1, IndexOf(l, "=") - 1)

\* key_part.endswith("[]")
EndsWithBrackets(kp) == kp # <<>> /\ kp[Len(kp)] = "[]"

\* line.replace("[]=", "=", 1)
RECURSIVE ReplaceBracketsEq(_)
ReplaceBracketsEq(l) ==
    IF Len(l) < 2 THEN l
    ELSE IF l[1] = "[]" /\ l[2] = "=" THEN Tail(l)
         ELSE <<Head(l)>> \o ReplaceBracketsEq(Tail(l))

\* _LINE_RE.match: ^\s*([A-Za-z0-9_.:-]+)\s*=\s*(.*?)\s*$
LINE_RE(l) ==
    LET k == SkipSpaces(l, 1)
        e == SkipSpaces(l, k + 1)
    IN  IF At(l, k) \in ReportWords /\ At(l, e) = "="
        THEN [matched |-> TRUE, key |-> l[k],
              value |-> Strip(SubSeq(l, e + 1, Len(l)))]
        ELSE [matched |-> FALSE, key |-> NoMatch, value |-> <<>>]

\* _QUOTED_RE: a value between two equal quote characters loses them
Unquote(v) ==
    IF Len(v) >= 2 /\ v[1] \in QuoteChars /\ v[Len(v)] = v[1]
    THEN SubSeq(v, 2, Len(v) - 1)
    ELSE v

\* a mutant: the new value goes in front
PrependValue(vs, v) == <<v>> \o vs

\* line 75: out[key].append(value)
AppendValue(vs, v) == Append(vs, v)

\* lines 69-75: a list line
StoreList(o, key, v) ==
    LET o1 == IF key \in DOMAIN o THEN o ELSE o @@ (key :> ListEntry(<<>>))
    IN  IF o1[key].kind = "list"
        THEN [o1 EXCEPT ![key] = ListEntry(AppendValue(o1[key].items, v))]
        ELSE o1

\* lines 76-77: out[key] = value
StoreScalar(o, key, v) ==
    [k \in DOMAIN o \cup {key} |-> IF k = key THEN ScalarEntry(v) ELSE o[k]]

\* lines 42-77: the dictionary after one more line
parse_report_line(o, raw) ==
    LET line    == Strip(raw)
        is_list == EndsWithBrackets(key_part(line))
        clean   == IF is_list THEN ReplaceBracketsEq(line) ELSE line
        m       == LINE_RE(clean)
    IN  IF line = <<>> \/ Head(line) = "#" THEN o
        ELSE IF ~m.matched THEN o
        ELSE IF is_list
             THEN StoreList(o, LowerChar(m.key), Unquote(m.value))
             ELSE StoreScalar(o, LowerChar(m.key), Unquote(m.value))

\* the lines a report is made of
SampleReportLines ==
    {<<"x", "[]", "=", "a">>,
     <<"x", "[]", "=", "b">>,
     <<"X", "[]", "=", "\"", "c", "\"">>,
     <<"x", "=", "b">>,
     <<"x", " ", "=", " ", "b">>,
     <<"x", "[]", " ", "=", " ", "a">>,
     <<"#", "x", "=", "a">>,
     <<" ", "x", "[]">>,
     <<"a", "=", "c", " ">>}

ReportInit ==
    /\ \E n \in 0..MaxReportLines : repLines \in [1..n -> SampleReportLines]
    /\ repNo = 0
    /\ out = <<>>
    /\ batch = <<>>
    /\ loadIdx = 0
    /\ loaded = <<>>
    /\ results = <<>>
    /\ loadPc = "idle"
    /\ fpIn = <<>>
    /\ fpOut = <<>>
    /\ audits = NoFindings
    /\ status = NoFindings
    /\ res = NoGroups
    /\ cmp = NoCall
    /\ fs = NoFileSystem
    /\ lastOp = NoOp
    /\ thr = [t \in Threads |-> ThreadStart]
    /\ raceAudit = NoAudit
    /\ raced = FALSE
    /\ dcfg = NoConfig
    /\ dpc = "idle"
    /\ baseIdx = 0
    /\ scanning = FALSE
    /\ queue = <<>>
    /\ visited = {}
    /\ sources = <<>>
    /\ seen_keys = {}
    /\ encountered = <<>>
    /\ visits = {}
    /\ logLines = <<>>
    /\ lineNo = 0
    /\ current_test_id = None
    /\ findings = <<>>

\* lines 41-77: one turn of the loop over the lines of the file
ParseReportLine ==
    /\ repNo < Len(repLines)
    /\ repNo' = repNo + 1
    /\ out' = parse_report_line(out, repLines[repNo + 1])
    /\ UNCHANGED <<repLines, compareVars, storageVars, raceVars, discVars, logVars, loadVars, fingerprintVars>>

ReportNext == ParseReportLine

(***************************************************************************)
(* parser/report.py: extract_meta, and loader.py                           *)
(***************************************************************************)
\* parse_log: the loop over all the lines, from the ambient test id ctx
RECURSIVE parse_log_from(_, _, _)
parse_log_from(ctx, fnds, lines) ==
    IF lines = <<>> THEN [current_test_id |-> ctx, findings |-> fnds]
    ELSE LET st == parse_log_line(ctx, fnds, Head(lines))
         IN  parse_log_from(st.current_test_id, st.findings, Tail(lines))

\* parse_report_dat: the loop over all the lines
RECURSIVE parse_report_dat(_, _)
parse_report_dat(o, lines) ==
    IF lines = <<>> THEN o
    ELSE parse_report_dat(parse_report_line(o, Head(lines)), Tail(lines))

\* get_first found nothing
NoEntry == [kind |-> "none", value |-> <<>>, items |-> <<>>]

\* bool(data[k]): a non-empty text or a non-empty list
Truthy(e) == (e.kind = "scalar" /\ e.value # <<>>) \/ (e.kind = "list" /\ e.items # <<>>)

KEY_CANDIDATES ==
    [hostname |-> <<"hostname", "host", "system.hostname">>,
     distro |-> <<"os_name", "os", "distribution", "distro">>,
     distro_version |-> <<"os_version", "os_release", "version">>,
     kernel |-> <<"os_kernel_version_full", "os_kernel_version", "kernel_version", "uname_r">>,
     hardening_index |-> <<"hardening_index", "compliance_score">>,
     started_at |-> <<"report_datetime_start", "scan_start", "scan.start_time">>,
     finished_at |-> <<"report_datetime_end", "scan_end", "scan.end_time">>]

\* a mutant: the first candidate key that is present decides, empty or not
get_first_present(data, field_candidates) ==
    IF \E i \in 1..Len(field_candidates) : field_candidates[i] \in DOMAIN data
    THEN data[field_candidates[CHOOSE i \in 1..Len(field_candidates) :
                  /\ field_candidates[i] \in DOMAIN data
                  /\ \A j \in 1..(i - 1) : field_candidates[j] \notin DOMAIN data]]
    ELSE NoEntry

\* get_first: the value of the first candidate key that is present and truthy
RECURSIVE get_first(_, _)
get_first(data, field_candidates) ==
    IF field_candidates = <<>> THEN NoEntry
    ELSE IF Head(field_candidates) \in DOMAIN data /\ Truthy(data[Head(field_candidates)])
         THEN data[Head(field_candidates)]
         ELSE get_first(data, Tail(field_candidates))

\* hardening_index is None
NoIndex == -1

\* str.isdigit() and int() on the texts of the reports
DigitWords == {"0", "70"}

ToInt(w) == IF w = "0" THEN 0 ELSE 70

\* lines 107-110: the score, if the raw value is a text of digits
Score(score_raw) ==
    IF score_raw.kind = "scalar" /\ Len(score_raw.value) = 1
       /\ score_raw.value[1] \in DigitWords
    THEN ToInt(score_raw.value[1])
    ELSE NoIndex

\* _parse_date raises TypeError: strptime is given a list
DateRaises(e) == e.kind = "list"

\* _parse_date: the datetime of a text in one of the two formats, else None
parse_date(e) ==
    IF e.kind = "scalar" /\ e.value = <<"2026-01-01">>
    THEN "2026-01-01 00:00:00+00:00"
    ELSE None

\* datetime.fromtimestamp(ts, tz=utc)
fromtimestamp(ts) ==
    CASE ts = 1 -> "1970-01-01 00:00:01+00:00"
      [] ts = 2 -> "1970-01-01 00:00:02+00:00"
      [] ts = 3 -> "1970-01-01 00:00:03+00:00"

\* started_at.astimezone(utc).strftime("%Y%m%dT%H%M%SZ")
strftime(dt) ==
    CASE dt = "2026-01-01 00:00:00+00:00" -> "20260101T000000Z"
      [] dt = "1970-01-01 00:00:01+00:00" -> "19700101T000001Z"
      [] dt = "1970-01-01 00:00:02+00:00" -> "19700101T000002Z"
      [] dt = "1970-01-01 00:00:03+00:00" -> "19700101T000003Z"

\* make_audit_id: a digest of the source key, with the start time if known
make_audit_id(source_key, started_at) ==
    sha1_hex(IF started_at # None
             THEN source_key \o <<"|", strftime(started_at)>>
             ELSE source_key)

\* st_mtime of the two files of a source
ReportMTime == 1

LogMTime == 2

\* the report of the directory "junk" was written after its log
LateMTime == 3

\* best_ts is None
NoMTime == -1

\* p.stat().st_mtime of a file that exists
st_mtime(p) ==
    IF p = <<"junk", REPORT_NAME>> THEN LateMTime
    ELSE IF Last(p) = REPORT_NAME THEN ReportMTime ELSE LogMTime

\* lines 100-133: the fields taken from the parsed report; raised tells that
\* _parse_date raised
AuditMeta(source, data, start_s, end_s) ==
    [raised |-> DateRaises(start_s) \/ DateRaises(end_s),
     audit_id |-> make_audit_id(as_key(source), parse_date(start_s)),
     started_at |-> parse_date(start_s),
     finished_at |-> parse_date(end_s),
     hostname |-> get_first(data, KEY_CANDIDATES.hostname),
     distro |-> get_first(data, KEY_CANDIDATES.distro),
     distro_version |-> get_first(data, KEY_CANDIDATES.distro_version),
     kernel |-> get_first(data, KEY_CANDIDATES.kernel),
     hardening_index |-> Score(get_first(data, KEY_CANDIDATES.hardening_index)),
     source |-> source,
     extra |-> data]

\* lines 113-114: the two dates are looked up in the parsed report
meta_of(source, data) ==
    AuditMeta(source, data, get_first(data, KEY_CANDIDATES.started_at),
              get_first(data, KEY_CANDIDATES.finished_at))

\* lines 85-133: the report is parsed if the source has one
extract_meta(ls) ==
    meta_of(ls.source,
            IF ls.source.report_path # NoPath
            THEN parse_report_dat(<<>>, ls.report) ELSE <<>>)

\* _best_effort_started_at: the latest modification time of the files
best_effort_started_at(source) ==
    LET ts1 == IF source.report_path # NoPath THEN st_mtime(source.report_path)
               ELSE NoMTime
        ts2 == IF source.log_path # NoPath
                  /\ (ts1 = NoMTime \/ st_mtime(source.log_path) > ts1)
               THEN st_mtime(source.log_path) ELSE ts1
    IN  IF ts2 = NoMTime THEN None ELSE fromtimestamp(ts2)

\* a mutant: the parser starts from the test id the last parse ended with
InitialTestIdCarried(prev) == prev

\* parser/log.py line 42: current_test_id = None
InitialTestId(prev) == None

\* _load_findings; prev is the test id the last parse ended with
load_findings(ls, prev) ==
    IF ls.source.log_path = NoPath
    THEN [current_test_id |-> prev, findings |-> <<>>]
    ELSE parse_log_from(InitialTestId(prev), <<>>, ls.log)

CountType(fnds, t) == Cardinality({i \in 1..Len(fnds) : fnds[i].ftype = t})

\* a mutant: the id made by extract_meta is kept
stale_audit_id(source, meta, best) == meta.audit_id

\* lines 24-27: the id is made again if the fallback gave a start time
regenerated_audit_id(source, meta, best) ==
    IF meta.started_at = None /\ best # None
    THEN make_audit_id(as_key(source), best)
    ELSE meta.audit_id

\* lines 24-33: the start time falls back on the files' times, and the
\* counters are recalculated
Audit(source, prev, meta, best, parsed) ==
    [raised |-> meta.raised,
     current_test_id |-> IF meta.raised THEN prev ELSE parsed.current_test_id,
     audit |-> [meta |-> [meta EXCEPT
                    !.started_at = IF meta.started_at = None THEN best
                                   ELSE meta.started_at,
                    !.audit_id = regenerated_audit_id(source, meta, best)],
                findings |-> IF meta.raised THEN <<>> ELSE parsed.findings,
                warnings_count |->
                    IF meta.raised THEN 0 ELSE CountType(parsed.findings, "warning"),
                suggestions_count |->
                    IF meta.raised THEN 0 ELSE CountType(parsed.findings, "suggestion")]]

\* load_audit, lines 19-33
load_audit(ls, prev) ==
    Audit(ls.source, prev, extract_meta(ls), best_effort_started_at(ls.source),
          load_findings(ls, prev))

\* a mutant: an index of 0 counts as no index
is_empty_falsy_index(audit) ==
    /\ audit.meta.hardening_index \in {NoIndex, 0}
    /\ audit.findings = <<>>
    /\ ~Truthy(audit.meta.hostname)

\* lines 46-50
is_empty(audit) ==
    /\ audit.meta.hardening_index = NoIndex
    /\ audit.findings = <<>>
    /\ ~Truthy(audit.meta.hostname)

MaxBatch == 3

\* a source as discover_audits yields it, with the lines of its files; a
\* file that is absent has no path in the source
LoadSource(dir, report, hasReport, log, hasLog) ==
    [source |-> AuditSource(<<dir>>,
                            IF hasLog THEN <<dir, LOG_NAME>> ELSE NoPath,
                            IF hasReport THEN <<dir, REPORT_NAME>> ELSE NoPath),
     report |-> report, log |-> log]

\* the sources a batch is made of: a full audit, one with an index of 0
\* only, one with nothing that counts, one whose start date is a list, one
\* with a host name only, one with a log only, one with an unusable index
\* and a report newer than its log, one with no file at all, one whose
\* first candidate keys hold an empty or an unusable value, one whose first
\* candidate keys are empty and whose later ones are usable
LoadSources ==
    {LoadSource("good",
         << <<"hostname", "=", "h1">>, <<"hardening_index", "=", "70">>,
            <<"report_datetime_start", "=", "2026-01-01">> >>, TRUE,
         << <<" ", "Warning", ":", " ", "x">>, <<"Test", ":", " ", "ssh-2">> >>, TRUE),
     LoadSource("zero", << <<"hardening_index", "=", "0">> >>, TRUE, <<>>, FALSE),
     LoadSource("empty", << <<"x", "=", "b">> >>, TRUE, <<>>, FALSE),
     LoadSource("bad",
         << <<"hostname", "=", "h2">>,
            <<"report_datetime_start", "[]", "=", "2026-01-01">> >>, TRUE,
         << <<"Suggestion", ":", " ", "x", " ", "[test:php-3]">> >>, TRUE),
     LoadSource("host", << <<"host", "=", "h1">> >>, TRUE, <<>>, FALSE),
     LoadSource("logonly", <<>>, FALSE,
         << <<" ", "Warning", ":", " ", "x">>, <<"Test", ":", " ", "ssh-2">> >>, TRUE),
     LoadSource("junk", << <<"hardening_index", "=", "junk">> >>, TRUE,
         << <<"x", " ", "x">> >>, TRUE),
     LoadSource("none", <<>>, FALSE, <<>>, FALSE),
     LoadSource("alt",
         << <<"hostname", "=">>, <<"host", "=", "h2">>,
            <<"hardening_index", "=", "junk">>, <<"compliance_score", "=", "70">>,
            <<"report_datetime_end", "=", "junk">>,
            <<"scan_end", "=", "2026-01-01">> >>, TRUE, <<>>, FALSE),
     LoadSource("later",
         << <<"hardening_index", "=">>, <<"compliance_score", "=", "70">>,
            <<"report_datetime_end", "=">>,
            <<"scan_end", "=", "2026-01-01">> >>, TRUE, <<>>, FALSE)}

LoadInit ==
    /\ \E n \in 0..MaxBatch : batch \in [1..n -> LoadSources]
    /\ loadIdx = 0
    /\ loaded = <<>>
    /\ results = <<>>
    /\ loadPc = "loop"
    /\ fpIn = <<>>
    /\ fpOut = <<>>
    /\ audits = NoFindings
    /\ status = NoFindings
    /\ res = NoGroups
    /\ cmp = NoCall
    /\ fs = NoFileSystem
    /\ lastOp = NoOp
    /\ thr = [t \in Threads |-> ThreadStart]
    /\ raceAudit = NoAudit
    /\ raced = FALSE
    /\ dcfg = NoConfig
    /\ dpc = "idle"
    /\ baseIdx = 0
    /\ scanning = FALSE
    /\ queue = <<>>
    /\ visited = {}
    /\ sources = <<>>
    /\ seen_keys = {}
    /\ encountered = <<>>
    /\ visits = {}
    /\ logLines = <<>>
    /\ lineNo = 0
    /\ current_test_id = None
    /\ findings = <<>>
    /\ repLines = <<>>
    /\ repNo = 0
    /\ out = <<>>

loadIdle ==
    <<compareVars, storageVars, raceVars, discVars, logLines, lineNo, findings, reportVars,
      fingerprintVars>>

\* load_many, lines 46-53: the audit r is kept unless it is empty; an
\* exception of load_audit leaves load_many.  current_test_id keeps what the
\* parser ended with.
Keep_audit(r) ==
    IF r.raised
    THEN /\ loadPc' = "raised"
         /\ UNCHANGED <<loadIdx, loaded, results, current_test_id>>
    ELSE /\ loadIdx' = loadIdx + 1
         /\ loaded' = Append(loaded, r.audit)
         /\ results' = IF is_empty(r.audit) THEN results
                       ELSE Append(results, r.audit)
         /\ current_test_id' = r.current_test_id
         /\ UNCHANGED loadPc

\* load_many, lines 43-53: one turn of the loop
LoadOne ==
    /\ loadPc = "loop" /\ loadIdx < Len(batch)
    /\ Keep_audit(load_audit(batch[loadIdx + 1], current_test_id))
    /\ UNCHANGED <<batch, loadIdle>>

\* line 55: return results
ReturnResults ==
    /\ loadPc = "loop" /\ loadIdx = Len(batch)
    /\ loadPc' = "returned"
    /\ UNCHANGED <<batch, loadIdx, loaded, results, current_test_id, loadIdle>>

LoadNext == LoadOne \/ ReturnResults

(***************************************************************************)
(* model.py: Finding.normalized_fingerprint applied to two findings        *)
(***************************************************************************)
MaxMessageLen == 3

\* the characters of a message: two letters that differ in case, the space,
\* and the form feed
MessageChars == {"a", "A", " ", "\f"}

RECURSIVE MessagesOfLen(_)
MessagesOfLen(n) ==
    IF n = 0 THEN {<<>>}
    ELSE {Append(m, c) : m \in MessagesOfLen(n - 1), c \in MessageChars}

Messages == UNION {MessagesOfLen(n) : n \in 0..MaxMessageLen}

\* a Finding with all its fields; v tells the fields that came from elsewhere
FullFinding(msg, tid, v) ==
    [ftype |-> "warning", category |-> "Uncategorized", message |-> msg,
     test_id |-> tid,
     finding_id |-> IF v = 1 THEN <<"id1">> ELSE <<"id2">>,
     status |-> IF v = 1 THEN "unchanged" ELSE "new",
     evidence |-> IF v = 1 THEN <<>> ELSE << <<"Warning", ":", " ", "a">> >>,
     source_line_start |-> IF v = 1 THEN NoLine ELSE 2]

FingerprintInit ==
    /\ \E m1, m2 \in Messages : \E t1 \in {None, "T1"}, t2 \in {None, "T1", "T2"} :
          \E v \in {1, 2} :
              fpIn = <<FullFinding(m1, t1, 1), FullFinding(m2, t2, v)>>
    /\ fpOut = <<>>
    /\ audits = NoFindings
    /\ status = NoFindings
    /\ res = NoGroups
    /\ cmp = NoCall
    /\ fs = NoFileSystem
    /\ lastOp = NoOp
    /\ thr = [t \in Threads |-> ThreadStart]
    /\ raceAudit = NoAudit
    /\ raced = FALSE
    /\ dcfg = NoConfig
    /\ dpc = "idle"
    /\ baseIdx = 0
    /\ scanning = FALSE
    /\ queue = <<>>
    /\ visited = {}
    /\ sources = <<>>
    /\ seen_keys = {}
    /\ encountered = <<>>
    /\ visits = {}
    /\ logLines = <<>>
    /\ lineNo = 0
    /\ current_test_id = None
    /\ findings = <<>>
    /\ repLines = <<>>
    /\ repNo = 0
    /\ out = <<>>
    /\ batch = <<>>
    /\ loadIdx = 0
    /\ loaded = <<>>
    /\ results = <<>>
    /\ loadPc = "idle"

\* both findings are asked for their fingerprint
TakeFingerprints ==
    /\ fpOut = <<>>
    /\ fpOut' = <<normalized_fingerprint(fpIn[1]), normalized_fingerprint(fpIn[2])>>
    /\ UNCHANGED <<fpIn, compareVars, storageVars, raceVars, discVars, logVars, reportVars,
                   loadVars>>

FingerprintNext == TakeFingerprints

(***************************************************************************)
(* Specifications: one per component                                       *)
(***************************************************************************)
SpecCompare == CompareInit /\ [][CompareNext]_vars

SpecStorage == StorageInit /\ [][StorageNext]_vars

SpecRace == RaceInit /\ [][RaceNext]_vars

SpecDiscovery == DiscInit /\ [][DiscNext]_vars

\* discover_audits has a step to take: some action of DiscNext is enabled
\* exactly in these states, and each of them changes vars
DiscRunning == dpc \in {"probe", "scan"}

\* discover_audits runs on, its next step is always taken: weak fairness
\* WF_vars(DiscNext), with ENABLED <<DiscNext>>_vars written as DiscRunning
SpecDiscoveryLive ==
    DiscInit /\ [][DiscNext]_vars /\ ([]<>(~DiscRunning) \/ []<><<DiscNext>>_vars)

SpecLog == LogInit /\ [][LogNext]_vars

SpecReport == ReportInit /\ [][ReportNext]_vars

SpecLoad == LoadInit /\ [][LoadNext]_vars

SpecFingerprint == FingerprintInit /\ [][FingerprintNext]_vars

(***************************************************************************)
(* Claims about compare_audits                                             *)
(***************************************************************************)
Fingerprints(fnds) == {normalized_fingerprint(fnds[i]) : i \in 1..Len(fnds)}

HasDuplicateFingerprints(fnds) ==
    \E i, j \in 1..Len(fnds) :
        i # j /\ normalized_fingerprint(fnds[i]) = normalized_fingerprint(fnds[j])

IsFindingOf(ref, aid) == ref[1] = aid /\ ref[2] \in 1..Len(audits[aid])

FingerprintOfRef(ref) == normalized_fingerprint(audits[ref[1]][ref[2]])

\* C1: after compare_audits(old, new), |new| + |persistent| is the number of
\* findings of new and |resolved| + |persistent| is the number of findings of
\* old, also when an audit holds several findings with one fingerprint.
C1_GroupSizesMatchAudits ==
    cmp # NoCall =>
        /\ Len(res.new) + Len(res.persistent) = Len(audits[cmp.new])
        /\ Len(res.resolved) + Len(res.persistent) = Len(audits[cmp.old])

\* C2: the groups are decided by fingerprint only: a finding in "new" is a
\* finding of new whose fingerprint no finding of old has, a finding in
\* "resolved" is a finding of old whose fingerprint no finding of new has, a
\* finding in "persistent" is a finding of new whose fingerprint occurs in
\* old, and no finding object is in the groups twice.
C2_GroupsByFingerprint ==
    cmp # NoCall =>
        LET all == res.new \o res.resolved \o res.persistent
        IN  /\ \A r \in Range(res.new) :
                /\ IsFindingOf(r, cmp.new)
                /\ FingerprintOfRef(r) \notin Fingerprints(audits[cmp.old])
            /\ \A r \in Range(res.resolved) :
                /\ IsFindingOf(r, cmp.old)
                /\ FingerprintOfRef(r) \notin Fingerprints(audits[cmp.new])
            /\ \A r \in Range(res.persistent) :
                /\ IsFindingOf(r, cmp.new)
                /\ FingerprintOfRef(r) \in Fingerprints(audits[cmp.old])
            /\ Cardinality(Range(all)) = Len(all)

\* a comparison of two different audits that fills the three groups, the
\* persistent finding matching a finding of old with another message text
C2_Witness ==
    /\ cmp # NoCall
    /\ cmp.old # cmp.new
    /\ res.new # <<>>
    /\ res.resolved # <<>>
    /\ res.persistent # <<>>
    /\ \E r \in Range(res.persistent) :
          \A i \in 1..Len(audits[cmp.old]) :
              normalized_fingerprint(audits[cmp.old][i]) = FingerprintOfRef(r)
                  => audits[cmp.old][i].message # audits[r[1]][r[2]].message

\* the status the comparison of old with new gives to a finding of audit aid
ExpectedStatus(aid, i) ==
    LET fp == normalized_fingerprint(audits[aid][i])
    IN  IF aid = cmp.new
        THEN IF fp \in Fingerprints(audits[cmp.old]) THEN "unchanged" ELSE "new"
        ELSE IF fp \in Fingerprints(audits[cmp.new]) THEN "unchanged" ELSE "resolved"

\* C3: after compare_audits(old, new), whatever comparisons came before,
\* every finding of old and of new carries the status of this comparison.
\* Stated for audits in which no two findings share a fingerprint.
C3_StatusOfThisComparison ==
    (/\ cmp # NoCall
     /\ ~HasDuplicateFingerprints(audits[cmp.old])
     /\ ~HasDuplicateFingerprints(audits[cmp.new]))
        => \A aid \in {cmp.old, cmp.new} :
              \A i \in 1..Len(audits[aid]) : status[aid][i] = ExpectedStatus(aid, i)

(***************************************************************************)
(* Claims about the snapshot archive                                       *)
(***************************************************************************)
UnderSnapshotRoot(p) == InParents(SNAPSHOT_ROOT, p)

\* what lies below the snapshot root: the directories and the files with
\* their contents
ArchiveContents(f) ==
    [dirs  |-> {d \in f.dirs : UnderSnapshotRoot(d)},
     files |-> [q \in {q \in DOMAIN f.files : UnderSnapshotRoot(q)} |-> f.files[q]]]

Removed(f, g) == (f.dirs \ g.dirs) \cup (DOMAIN f.files \ DOMAIN g.files)

\* C4: over any sequence of create_snapshot and delete_snapshot calls, a
\* directory goes only in a delete_snapshot of an audit whose resolved root
\* directory is a strict descendant of the snapshot root, and only from
\* below the snapshot root; delete_snapshot of any other audit raises and
\* removes nothing.
C4_DeleteOnlyManagedArchives ==
    [][/\ Removed(fs, fs') # {} =>
            /\ lastOp'.op = "delete"
            /\ UnderSnapshotRoot(Resolve(lastOp'.audit.source.root_dir))
            /\ \A p \in Removed(fs, fs') : UnderSnapshotRoot(p)
       /\ (/\ lastOp'.op = "delete"
           /\ ~UnderSnapshotRoot(Resolve(lastOp'.audit.source.root_dir)))
            => lastOp'.result # "ok" /\ Removed(fs, fs') = {}]_vars

\* an archive made of the live audit has been deleted again
C4_Witness ==
    /\ lastOp.op = "delete"
    /\ lastOp.result = "ok"
    /\ UnderSnapshotRoot(Resolve(lastOp.audit.source.root_dir))
    /\ Resolve(lastOp.audit.source.root_dir) \notin fs.dirs
    /\ VARLOG \in fs.dirs

\* C5: create_snapshot raises when the audit has no source, when it is
\* already under the snapshot root, when the destination exists and when
\* neither file can be copied; whenever it raises, the directories below
\* the snapshot root and their contents are as before the call.
C5_FailedCreateChangesNothing ==
    [][lastOp'.op = "create" =>
        LET a    == lastOp'.audit
            dest == DestDir(a, lastOp'.now)
        IN  /\ (\/ a.source = NoSource
                \/ UnderSnapshotRoot(Resolve(a.source.root_dir))
                \/ Exists(fs, dest)
                \/ (/\ ~CanCopy(fs, a.source.log_path)
                    /\ ~CanCopy(fs, a.source.report_path)))
                  => lastOp'.result # "ok"
            /\ lastOp'.result # "ok" => ArchiveContents(fs') = ArchiveContents(fs)]_vars

\* a create_snapshot that copied nothing has raised, beside an earlier archive
C5_Witness ==
    /\ lastOp.op = "create"
    /\ lastOp.result = "ValueError: aucun fichier"
    /\ lastOp.dest \notin fs.dirs
    /\ ArchiveContents(fs).dirs # {}

\* C6: the archive preconditions are checks, not a lock: when two
\* create_snapshot calls for one live audit both pass the checks for the
\* same destination before either makes the directory, neither raises:
\* both copy into that directory and both return it.
C6_RacingCreatesBothSucceed ==
    (/\ raced
     /\ \A t \in Threads : thr[t].pc = "done"
     /\ \/ CanCopy(fs, raceAudit.source.log_path)
        \/ CanCopy(fs, raceAudit.source.report_path))
        => /\ \A t \in Threads : thr[t].result = "ok"
           /\ thr[1].dest = thr[2].dest
           /\ thr[1].dest \in fs.dirs
           /\ \A t \in Threads : thr[t].files_copied >= 1

\* both calls have returned the same directory after racing past the checks
C6_Witness ==
    /\ raced
    /\ \A t \in Threads : thr[t].pc = "done" /\ thr[t].result = "ok"
    /\ thr[1].dest = thr[2].dest
    /\ thr[1].dest \o <<"lynis.log">> \in DOMAIN fs.files

(***************************************************************************)
(* Claims about discover_audits                                            *)
(***************************************************************************)

\* the identity of a source: its three paths, resolved
IdentityKey(src) ==
    <<Resolve(src.root_dir),
      IF src.log_path # NoPath THEN Resolve(src.log_path) ELSE NoPath,
      IF src.report_path # NoPath THEN Resolve(src.report_path) ELSE NoPath>>

FirstEncountered(k) ==
    encountered[CHOOSE i \in 1..Len(encountered) :
                    /\ IdentityKey(encountered[i]) = k
                    /\ \A j \in 1..(i - 1) : IdentityKey(encountered[j]) # k]

\* C7: the list returned by discover_audits holds no two sources with the same
\* identity key; every directory in which files were found, by the probe or by
\* the scan of any search root under any spelling, appears exactly once; and
\* the source that is kept is the first one that was encountered with its key.
C7_NoDuplicateSources ==
    dpc = "done" =>
        /\ \A i, j \in 1..Len(sources) :
              IdentityKey(sources[i]) = IdentityKey(sources[j]) => i = j
        /\ \A e \in 1..Len(encountered) :
              Cardinality({i \in 1..Len(sources) :
                  Resolve(sources[i].root_dir) = Resolve(encountered[e].root_dir)}) = 1
        /\ \A i \in 1..Len(sources) :
              sources[i] = FirstEncountered(IdentityKey(sources[i]))

\* /var/log was found by the probe and by the scans of two roots that spell
\* it differently, and the result holds it once
C7_Witness ==
    /\ dpc = "done"
    /\ dcfg.include_current_varlog
    /\ Cardinality({e \in 1..Len(encountered) :
                        Resolve(encountered[e].root_dir) = VARLOG}) >= 3
    /\ \E e \in 1..Len(encountered) :
          /\ Resolve(encountered[e].root_dir) = VARLOG
          /\ encountered[e].root_dir # VARLOG
    /\ Cardinality({i \in 1..Len(sources) :
                        Resolve(sources[i].root_dir) = VARLOG}) = 1

\* the entries of a listed directory that the scan may go down into
EligibleEntries(cur) ==
    {cur \o <<n>> : n \in {m \in Range(ChildNames(Resolve(cur))) :
        /\ is_dir(cur \o <<m>>)
        /\ m \notin NoiseNames
        /\ (dcfg.follow_symlinks \/ ~is_symlink(cur \o <<m>>))}}

\* C8: in the scan of a search root a directory is taken at a depth of at most
\* max_depth, the depth being the number of names below the root; a source
\* comes from the probe or from such a visit; and the directories one level
\* below a listed directory of depth < max_depth, so those of depth max_depth
\* too, are visited in the same scan.
C8_DepthBound ==
    /\ \A v \in visits :
          /\ v.depth <= dcfg.max_depth
          /\ SubSeq(v.path, 1, Len(v.base)) = v.base
          /\ Len(v.path) = Len(v.base) + v.depth
    /\ \A e \in 1..Len(encountered) :
          \/ dcfg.include_current_varlog /\ encountered[e].root_dir = VARLOG
          \/ \E v \in visits : v.path = encountered[e].root_dir /\ v.yielded
    /\ dpc = "done" =>
          \A v \in visits :
              v.listed /\ v.depth < dcfg.max_depth =>
                  \A e \in EligibleEntries(v.path) :
                      \E w \in visits :
                          w.base = v.base /\ Resolve(w.path) = Resolve(e)

\* a directory at depth max_depth gave a source, while directory b, which
\* holds both files further down, was never taken
C8_Witness ==
    /\ dpc = "done"
    /\ dcfg.max_depth >= 1
    /\ \E v \in visits : v.depth = dcfg.max_depth /\ v.yielded
    /\ dcfg.files[DIR_B] = {LOG_NAME, REPORT_NAME}
    /\ \A v \in visits : Resolve(v.path) # DIR_B

\* C9: discover_audits returns a list whatever directory or entry cannot be
\* resolved, listed or examined.
C9_NeverAborts == dpc # "aborted"

\* the visits of the scan of one search root
VisitsOf(base) == {v \in visits : v.base = base}

\* C22: the scan of a search root ends, by exhaustion or by an exception,
\* and when it has ended no real directory, as resolve() names it, was
\* taken twice in it (the history of visits only grows, so none was at any
\* time), whatever links lead to it or back up the tree and whether links
\* are followed or not; so no real directory yielded two sources in one scan.
C22_ScanEndsVisitingOnce ==
    scanning ~>
        /\ ~scanning \/ dpc = "aborted"
        /\ \A v \in visits : \A w \in VisitsOf(v.base) :
              Resolve(v.path) = Resolve(w.path) => v = w
        /\ \A v \in visits :
              Cardinality({w \in VisitsOf(v.base) :
                  w.yielded /\ Resolve(w.path) = Resolve(v.path)}) <= 1

\* the directories on the way from the root of the scan down to visit v
OnTheWay(v) ==
    {Resolve(SubSeq(v.path, 1, Len(v.base) + k)) : k \in 0..v.depth}

\* links are followed and the queue of a scan has run empty: a listed
\* directory above max_depth holds an entry that leads back to a directory
\* on the way to it, which was queued and not taken again; another entry
\* is a second way to a directory that was taken under another path and
\* gave a source there
C22_Witness ==
    /\ dpc = "scan" /\ scanning /\ queue = <<>>
    /\ dcfg.follow_symlinks
    /\ \E v \in VisitsOf(dcfg.search_dirs[baseIdx]) :
          /\ v.listed /\ v.depth < dcfg.max_depth
          /\ \E e \in EligibleEntries(v.path) :
                /\ Resolve(e) \in OnTheWay(v)
                /\ Resolve(e) \in visited
                /\ \A w \in VisitsOf(v.base) : w.path # e
    /\ \E v \in VisitsOf(dcfg.search_dirs[baseIdx]) :
          /\ v.listed /\ v.depth < dcfg.max_depth
          /\ \E e \in EligibleEntries(v.path) :
                /\ Resolve(e) \notin OnTheWay(v)
                /\ \A w \in VisitsOf(v.base) : w.path # e
                /\ \E w \in VisitsOf(v.base) : Resolve(w.path) = Resolve(e) /\ w.yielded

(***************************************************************************)
(* Claims about parse_log                                                  *)
(***************************************************************************)

\* the identifier announced by a line of one of the two documented forms,
\* "Test: <ID>" and "Performing test ID <ID>", or NoMatch
AnnouncedId(l) ==
    IF Len(l) >= 4 /\ SubSeq(l, 1, 3) = <<"Test", ":", " ">> THEN l[4]
    ELSE IF Len(l) >= 7
            /\ SubSeq(l, 1, 6) = <<"Performing", " ", "test", " ", "ID", " ">>
         THEN l[7]
         ELSE NoMatch

\* the identifier of the last test-context line before line n, or None
RECURSIVE ContextBefore(_)
ContextBefore(n) ==
    IF n <= 1 THEN None
    ELSE IF AnnouncedId(Strip(logLines[n - 1])) # NoMatch
         THEN Upper(AnnouncedId(Strip(logLines[n - 1])))
         ELSE ContextBefore(n - 1)

HasInlineMarker(l) == \E i \in 1..Len(l) : l[i] \in InlineMarkers

FirstInlineMarker(l) ==
    l[CHOOSE i \in 1..Len(l) :
          l[i] \in InlineMarkers /\ \A j \in 1..(i - 1) : l[j] \notin InlineMarkers]

\* C10: the finding made from a line has the upper-cased identifier of the
\* line's inline marker if it has one, and otherwise the identifier of the
\* last test-context line before it, None if there was none; markers of
\* earlier finding lines play no part.
C10_TestIdAttribution ==
    [][Len(findings') > Len(findings) =>
          findings'[Len(findings')].test_id =
              IF HasInlineMarker(logLines[lineNo'])
              THEN Upper(InlineGroup(FirstInlineMarker(logLines[lineNo'])))
              ELSE ContextBefore(lineNo')]_vars

\* C11: the finding made from a line carries that line's 1-based number in
\* the file, blank and ignored lines counted, as source_line_start.
C11_SourceLineStart ==
    [][Len(findings') > Len(findings) =>
          findings'[Len(findings')].source_line_start = lineNo']_vars

(***************************************************************************)
(* Claims about the loader                                                 *)
(***************************************************************************)

FindingIds(audit) == [k \in 1..Len(audit.findings) |-> audit.findings[k].finding_id]

\* C12: two loads of the same source, its files being the same, give the
\* same audit_id and the same sequence of finding_id values, whatever was
\* loaded before or in between.
C12_LoadIsDeterministic ==
    \A i, j \in 1..Len(loaded) :
        batch[i] = batch[j] =>
            /\ loaded[i].meta.audit_id = loaded[j].meta.audit_id
            /\ FindingIds(loaded[i]) = FindingIds(loaded[j])

\* the same source was loaded twice, it has findings, and the parser ended
\* the first load with a test id in hand
C12_Witness ==
    /\ Len(loaded) >= 2
    /\ batch[1] = batch[2]
    /\ loaded[1].findings # <<>>
    /\ current_test_id # None

\* C13: load_many returns a list whatever source of the batch cannot be
\* loaded; it never ends with the exception of one load_audit.
C13_LoadManyNeverStops == loadPc # "raised"

\* an audit with nothing that counts: no index, no finding, no host name
HasNothing(audit) ==
    /\ audit.meta.hardening_index = NoIndex
    /\ Len(audit.findings) = 0
    /\ audit.meta.hostname = NoEntry

RECURSIVE WithoutEmpty(_)
WithoutEmpty(as) ==
    IF as = <<>> THEN <<>>
    ELSE IF HasNothing(Head(as)) THEN WithoutEmpty(Tail(as))
         ELSE <<Head(as)>> \o WithoutEmpty(Tail(as))

\* C14: the list that load_many returns holds, in the order of the sources
\* given, the audit of every source except those with no hardening index, no
\* finding and no host name; an index of 0 keeps an audit in.
C14_ResultsAreTheNonEmptyAudits ==
    loadPc = "returned" =>
        /\ Len(loaded) = Len(batch)
        /\ \A i \in 1..Len(loaded) : loaded[i].meta.source = batch[i].source
        /\ results = WithoutEmpty(loaded)
        /\ \A k \in 1..Len(results) :
              \E i \in 1..Len(batch) : results[k].meta.source = batch[i].source

\* load_many returned fewer audits than it was given sources, and kept one
\* whose only content is an index of 0
C14_Witness ==
    /\ loadPc = "returned"
    /\ Len(results) < Len(batch)
    /\ \E k \in 1..Len(results) :
          /\ results[k].meta.hardening_index = 0
          /\ results[k].findings = <<>>
          /\ results[k].meta.hostname = NoEntry

\* the modification times of the files of a source that exist
FileTimes(source) ==
    {st_mtime(p) : p \in {source.report_path, source.log_path} \ {NoPath}}

\* the start time an audit ends with: the one the report gives, else the
\* time of the newest file, else none
ExpectedStart(ls, given) ==
    IF given # None THEN given
    ELSE IF FileTimes(ls.source) = {} THEN None
    ELSE fromtimestamp(CHOOSE t \in FileTimes(ls.source) :
                           \A u \in FileTimes(ls.source) : u <= t)

\* C21: an audit that load_audit returned has the id that make_audit_id
\* gives for its source key and its final started_at; started_at is the
\* report's start time if the report gives one, else the newer of the
\* modification times of the files that exist; the id is made of the key
\* alone exactly when there is no start time.
C21_AuditIdFollowsStartedAt ==
    \A i \in 1..Len(loaded) :
        /\ loaded[i].meta.audit_id =
               make_audit_id(as_key(batch[i].source), loaded[i].meta.started_at)
        /\ loaded[i].meta.started_at =
               ExpectedStart(batch[i], extract_meta(batch[i]).started_at)
        /\ (loaded[i].meta.audit_id = sha1_hex(as_key(batch[i].source)))
               <=> (loaded[i].meta.started_at = None)

\* three audits were loaded: one whose report gives the start time, one
\* that fell back on the time of its report, newer than its log, and had its
\* id made again, and one with no time at all
C21_Witness ==
    /\ \E i \in 1..Len(loaded) :
          /\ extract_meta(batch[i]).started_at # None
          /\ loaded[i].meta.started_at = "2026-01-01 00:00:00+00:00"
    /\ \E i \in 1..Len(loaded) :
          /\ batch[i].source.root_dir = <<"junk">>
          /\ loaded[i].meta.started_at = fromtimestamp(LateMTime)
          /\ loaded[i].meta.audit_id # extract_meta(batch[i]).audit_id
    /\ \E i \in 1..Len(loaded) :
          /\ loaded[i].meta.started_at = None
          /\ loaded[i].meta.audit_id = sha1_hex(as_key(batch[i].source))

\* a value that is not empty
NonEmpty(e) ==
    \/ e.kind = "scalar" /\ Len(e.value) > 0
    \/ e.kind = "list" /\ Len(e.items) > 0

\* the positions of the candidate keys that the report gives a value for
NonEmptyAt(data, cands) ==
    {i \in 1..Len(cands) : cands[i] \in DOMAIN data /\ NonEmpty(data[cands[i]])}

\* the value of the first candidate key with a non-empty value, if any
FirstNonEmpty(data, cands) ==
    IF NonEmptyAt(data, cands) = {} THEN NoEntry
    ELSE data[cands[CHOOSE i \in NonEmptyAt(data, cands) :
                        \A j \in NonEmptyAt(data, cands) : i <= j]]

\* the raw value of a typed field of a loaded audit
RawOf(audit, cands) == FirstNonEmpty(audit.meta.extra, cands)

\* the text of an index
NumberText(n) == IF n = 0 THEN "0" ELSE "70"

\* the text of a time
TimeText(dt) == IF dt = "2026-01-01 00:00:00+00:00" THEN "2026-01-01" ELSE "other"

\* the four text fields of an audit are the raw values of their candidates
TextFieldsAreRaw(audit) ==
    /\ audit.meta.hostname = RawOf(audit, KEY_CANDIDATES.hostname)
    /\ audit.meta.distro = RawOf(audit, KEY_CANDIDATES.distro)
    /\ audit.meta.distro_version = RawOf(audit, KEY_CANDIDATES.distro_version)
    /\ audit.meta.kernel = RawOf(audit, KEY_CANDIDATES.kernel)

\* the index is set, to the number the raw value d writes
IndexIsValue(index, d) ==
    index # NoIndex /\ d.kind = "scalar" /\ d.value = <<NumberText(index)>>

\* the time is set, to the time the raw value d writes
TimeIsValue(dt, d) ==
    dt # None /\ d.kind = "scalar" /\ d.value = <<TimeText(dt)>>

\* C23, as stated: every typed field that extract_meta produced is the value
\* of the first candidate key that the report gives a non-empty value for,
\* an empty candidate being passed over, and is unset when there is none.
C23_FieldIsFirstNonEmptyValue ==
    \A i \in 1..Len(loaded) :
        /\ TextFieldsAreRaw(loaded[i])
        /\ IF RawOf(loaded[i], KEY_CANDIDATES.hardening_index) = NoEntry
           THEN loaded[i].meta.hardening_index = NoIndex
           ELSE IndexIsValue(loaded[i].meta.hardening_index,
                             RawOf(loaded[i], KEY_CANDIDATES.hardening_index))
        /\ IF RawOf(loaded[i], KEY_CANDIDATES.finished_at) = NoEntry
           THEN loaded[i].meta.finished_at = None
           ELSE TimeIsValue(loaded[i].meta.finished_at,
                            RawOf(loaded[i], KEY_CANDIDATES.finished_at))
        /\ IF RawOf(loaded[i], KEY_CANDIDATES.started_at) = NoEntry
           THEN extract_meta(batch[i]).started_at = None
           ELSE TimeIsValue(extract_meta(batch[i]).started_at,
                            RawOf(loaded[i], KEY_CANDIDATES.started_at))

\* a text of digits only
IsDigits(d) == d.kind = "scalar" /\ Len(d.value) = 1 /\ d.value[1] \in {"0", "70"}

\* a text in one of the two date formats
IsDate(d) == d.kind = "scalar" /\ d.value = <<"2026-01-01">>

\* C23, amended: every typed field is resolved from the value of the first
\* candidate key that the report gives a non-empty value for, an empty
\* candidate being passed over: the four text fields are that value, or
\* unset when there is none; the index is its number if it is made of digits
\* and the times are its time if it is in one of the two formats, and else
\* they are unset, no later candidate being tried.
C23_FieldFollowsFirstNonEmptyValue ==
    \A i \in 1..Len(loaded) :
        /\ TextFieldsAreRaw(loaded[i])
        /\ IF IsDigits(RawOf(loaded[i], KEY_CANDIDATES.hardening_index))
           THEN IndexIsValue(loaded[i].meta.hardening_index,
                             RawOf(loaded[i], KEY_CANDIDATES.hardening_index))
           ELSE loaded[i].meta.hardening_index = NoIndex
        /\ IF IsDate(RawOf(loaded[i], KEY_CANDIDATES.finished_at))
           THEN TimeIsValue(loaded[i].meta.finished_at,
                            RawOf(loaded[i], KEY_CANDIDATES.finished_at))
           ELSE loaded[i].meta.finished_at = None
        /\ IF IsDate(RawOf(loaded[i], KEY_CANDIDATES.started_at))
           THEN TimeIsValue(extract_meta(batch[i]).started_at,
                            RawOf(loaded[i], KEY_CANDIDATES.started_at))
           ELSE extract_meta(batch[i]).started_at = None

\* two audits were loaded: in one the host name comes from the second
\* candidate, the first being empty, and the index is unset, its first
\* candidate being no number; in the other the index and the end time come
\* from later candidates, the first ones being empty
C23_Witness ==
    /\ \E i \in 1..Len(loaded) :
          /\ "hostname" \in DOMAIN loaded[i].meta.extra
          /\ loaded[i].meta.extra["hostname"] = ScalarEntry(<<>>)
          /\ loaded[i].meta.hostname = ScalarEntry(<<"h2">>)
          /\ loaded[i].meta.extra["hardening_index"] = ScalarEntry(<<"junk">>)
          /\ loaded[i].meta.hardening_index = NoIndex
    /\ \E i \in 1..Len(loaded) :
          /\ "hardening_index" \in DOMAIN loaded[i].meta.extra
          /\ loaded[i].meta.extra["hardening_index"] = ScalarEntry(<<>>)
          /\ loaded[i].meta.hardening_index = 70
          /\ loaded[i].meta.finished_at = "2026-01-01 00:00:00+00:00"

(***************************************************************************)
(* Claims about parse_report_dat                                           *)
(***************************************************************************)

\* a line of the form key[]=value
IsListLine(l) ==
    LET t == Strip(l)
    IN  Len(t) >= 3 /\ t[1] \in ReportWords /\ t[2] = "[]" /\ t[3] = "="

\* a line of the form key=value, with or without whitespace around "="
IsScalarLine(l) ==
    LET t == Strip(l)
    IN  Len(t) >= 2 /\ t[1] \in ReportWords /\ At(t, SkipSpaces(t, 2)) = "="

\* the key of such a line, in lower case
LineKey(l) == LowerChar(Strip(l)[1])

\* the value of such a line: the text after "=", without quotes around it
LineValue(l) ==
    LET t == Strip(l)
    IN  Unquote(Strip(SubSeq(t, IndexOf(t, "=") + 1, Len(t))))

\* the values of the lines key[]=value among the first n lines, for key x
RECURSIVE ListValues(_, _)
ListValues(x, n) ==
    IF n = 0 THEN <<>>
    ELSE IF IsListLine(repLines[n]) /\ LineKey(repLines[n]) = x
         THEN Append(ListValues(x, n - 1), LineValue(repLines[n]))
         ELSE ListValues(x, n - 1)

\* every line read so far that begins with key x has the form x[]=value
OnlyListLines(x) ==
    \A i \in 1..repNo :
        (Strip(repLines[i]) # <<>> /\ LowerChar(Strip(repLines[i])[1]) = x)
            => IsListLine(repLines[i])

\* C15: a line key[]=value appends its value to the list under key, which it
\* creates if key is new, and leaves the earlier values of that list in
\* place; so a key that has had lines key[]=value only holds the list of
\* all their values in line order.
C15_ListValuesAccumulate ==
    /\ [](\A x \in {LowerChar(w) : w \in ReportWords} :
            (OnlyListLines(x) /\ ListValues(x, repNo) # <<>>) =>
                (x \in DOMAIN out /\ out[x] = ListEntry(ListValues(x, repNo))))
    /\ [][IsListLine(repLines[repNo']) =>
            LET x == LineKey(repLines[repNo'])
                v == LineValue(repLines[repNo'])
            IN  /\ x \notin DOMAIN out => out'[x] = ListEntry(<<v>>)
                /\ (x \in DOMAIN out /\ out[x].kind = "list") =>
                       out'[x] = ListEntry(Append(out[x].items, v))]_vars

\* three list lines for x were read, one with its key in upper case and its
\* value in quotes, and the list holds the three values in order
C15_Witness ==
    /\ "x" \in DOMAIN out
    /\ out["x"] = ListEntry(<< <<"a">>, <<"b">>, <<"c">> >>)
    /\ repNo = 3

\* C19: a key of the dictionary keeps the kind, list or scalar, that its
\* first line gave it, whatever lines follow.
C19_KindNeverChanges ==
    [][\A x \in DOMAIN out : out'[x].kind = out[x].kind]_vars

\* the line without the whitespace on either side of its first "="
WithoutSpacesAroundEq(l) ==
    IF IndexOf(l, "=") = 0 THEN l
    ELSE RStrip(SubSeq(l, 1, IndexOf(l, "=") - 1)) \o <<"=">>
         \o LStrip(SubSeq(l, IndexOf(l, "=") + 1, Len(l)))

\* C20: a line with whitespace around "=" changes the dictionary as the same
\* line without that whitespace does, for a scalar key and for a list key.
C20_SpacesAroundEqIgnored ==
    [][repNo' = repNo + 1 =>
          out' = parse_report_line(out, WithoutSpacesAroundEq(repLines[repNo']))]_vars

(***************************************************************************)
(* Claims about normalized_fingerprint                                     *)
(***************************************************************************)

\* str.split(): the words of a text, a word being a run of characters that
\* are not whitespace
RECURSIVE Words(_, _)
Words(text, word) ==
    IF text = <<>> THEN (IF word = <<>> THEN <<>> ELSE <<word>>)
    ELSE IF Head(text) \in WhitespaceChars
         THEN (IF word = <<>> THEN <<>> ELSE <<word>>) \o Words(Tail(text), <<>>)
         ELSE Words(Tail(text), Append(word, Head(text)))

\* the two texts differ in letter case or in whitespace only: they have the
\* same words, up to case
SameUpToCaseAndWhitespace(m1, m2) ==
    LET w1 == Words(m1, <<>>)
        w2 == Words(m2, <<>>)
    IN  /\ Len(w1) = Len(w2)
        /\ \A i \in 1..Len(w1) : Lower(w1[i]) = Lower(w2[i])

\* C16: findings equal in type, category and test_id whose messages differ in
\* case or whitespace only have the same fingerprint; findings equal in type,
\* category and message with different test_id have different fingerprints;
\* and the other fields of a finding play no part.
C16_FingerprintRelations ==
    fpOut # <<>> =>
        LET f == fpIn[1]
            g == fpIn[2]
            same == f.ftype = g.ftype /\ f.category = g.category
        IN  /\ (same /\ f.test_id = g.test_id
                  /\ SameUpToCaseAndWhitespace(f.message, g.message))
                   => fpOut[1] = fpOut[2]
            /\ (same /\ f.message = g.message /\ f.test_id # g.test_id)
                   => fpOut[1] # fpOut[2]
            /\ (same /\ f.message = g.message /\ f.test_id = g.test_id)
                   => fpOut[1] = fpOut[2]

(***************************************************************************)
(* Further claims about parse_log                                          *)
(***************************************************************************)

\* C17: a line of either documented form, "Test: <ID>" or "Performing test ID
\* <ID>", makes <ID> in upper case the ambient test id and gives no finding.
C17_BothContextForms ==
    [][(lineNo' = lineNo + 1 /\ AnnouncedId(Strip(logLines[lineNo'])) # NoMatch) =>
          /\ current_test_id' = Upper(AnnouncedId(Strip(logLines[lineNo'])))
          /\ findings' = findings]_vars

Placeholders == {"[details:-]", "[solution:-]"}

\* C18: the message of a finding holds no [test:IDENTIFIER] marker and no
\* [details:-] or [solution:-] placeholder, however many markers the line
\* had; the line as read is in evidence.
C18_MessageHasNoMarkers ==
    \A k \in 1..Len(findings) :
        /\ \A i \in 1..Len(findings[k].message) :
              findings[k].message[i] \notin InlineMarkers \cup Placeholders
        /\ Len(findings[k].evidence) = 1

====
